---- MODULE Spec2Model ----
(***************************************************************************)
(* trac-slack: the natural-language to Trac-query compiler of natural.py.  *)
(*                                                                         *)
(* A compilation (one call of natural_to_query) is modelled from the point *)
(* where the dependency parser has returned its tokens.  A token is a      *)
(* position of the sentence; its text, part of speech and head are the     *)
(* parser's output.  Python strings that the code concatenates, splits or  *)
(* rewrites (operators, values, clauses, macro templates, the query) are   *)
(* sequences of atoms: an atom is one character where the code can look    *)
(* inside the string ("=", "!", "&", the characters of a quoted literal)   *)
(* and a whole word elsewhere.                                             *)
(***************************************************************************)
EXTENDS Integers, Sequences, FiniteSets, TLC

(***************************************************************************)
(* Bounds of the model.                                                    *)
(***************************************************************************)
MaxLen == 3

(***************************************************************************)
(* String helpers (Python str methods on sequences of atoms).              *)
(***************************************************************************)
None == "<None>"

Range(s) == {s[i] : i \in DOMAIN s}

RECURSIVE Replace(_, _, _)
Replace(s, old, new) ==
    IF Len(s) < Len(old) \/ Len(old) = 0 THEN s
    ELSE LET hit == SubSeq(s, 1, Len(old)) = old
             k == IF hit THEN Len(old) ELSE 1
         IN  (IF hit THEN new ELSE <<Head(s)>>)
                 \o Replace(SubSeq(s, k + 1, Len(s)), old, new)

Contains(s, sub) ==
    \E i \in 1..(Len(s) - Len(sub) + 1) : SubSeq(s, i, i + Len(sub) - 1) = sub

RECURSIVE Split(_, _)
Split(s, sep) ==
    IF \A i \in DOMAIN s : s[i] # sep THEN <<s>>
    ELSE LET k == CHOOSE i \in DOMAIN s :
                      s[i] = sep /\ \A j \in 1..(i - 1) : s[j] # sep
         IN  <<SubSeq(s, 1, k - 1)>> \o Split(SubSeq(s, k + 1, Len(s)), sep)

RECURSIVE Join(_, _)
Join(parts, sep) ==
    IF Len(parts) = 0 THEN <<>>
    ELSE IF Len(parts) = 1 THEN parts[1]
    ELSE parts[1] \o <<sep>> \o Join(Tail(parts), sep)

RECURSIVE Concat(_)
Concat(seqs) == IF Len(seqs) = 0 THEN <<>> ELSE Head(seqs) \o Concat(Tail(seqs))

(***************************************************************************)
(* Trigger words (natural.py, module level).                               *)
(***************************************************************************)
negations == {"no", "not", "n't", "never", "none", "unlike", "different",
              "dissimilar", "unequal"}
partials == {"has", "like", "contains", "alike", "related", "close",
             "matching", "near", "akin", "relating", "resembling", "fuzzy",
             "contain", "in", "isin"}
negated_partials == {"notin", "notlike", "isnotin"}
exacts == {"is", "exactly", "exact", "equals", "same", "identical",
           "specific", "'ve", "have"}
negated_exacts == {"isnot"}
startings == {"starts", "start", "begin", "begins"}
endings == {"ends", "end"}
mes == {"me", "my", "i", "tome"}
change_modifiers == {"changed", "change", "modified"}
on_date == {"on"}
start_date == {"from", "since", "after"}
end_date == {"to", "before"}

UNIQUE_C == "YlaQbS0ydqe8"
UNIQUE_M == "wbsy0cnev3av"
UNIQUE_F == "57eaba821d58"

(***************************************************************************)
(* Grammar tables, for the configuration of natural_tests.py restricted to *)
(* one component and four statuses; the resolutions are core.py's default. *)
(***************************************************************************)
PRIORITIES == <<"lowest", "low", "normal", "high", "highest">>

TICKET_TYPES ==
    ("bug" :> "bug") @@ ("feature" :> "feature") @@ ("task" :> "task") @@
    ("bugs" :> "bug") @@ ("features" :> "feature") @@ ("tasks" :> "task")

ConfComponents == <<"Pyzor">>
COMPONENTS == ("pyzor" :> (ToString(0) \o UNIQUE_C))
REVERSED_COMPONENTS ==
    [p \in {ToString(i - 1) \o UNIQUE_C : i \in DOMAIN ConfComponents} |->
        ConfComponents[CHOOSE i \in DOMAIN ConfComponents :
                           ToString(i - 1) \o UNIQUE_C = p]]

STATUSES == <<"assigned_bug", "closed", "merge_required", "new">>

TRANSLATE_STATUS_TOKENS ==
    ("assigned" :> "assigned") @@ ("assigneds" :> "assigned") @@
    ("assign" :> "assigned") @@ ("assigning" :> "assigned") @@
    ("assigne" :> "assigned") @@
    ("bug" :> "bug") @@ ("bugs" :> "bug") @@
    ("closed" :> "closed") @@ ("closeds" :> "closed") @@
    ("clos" :> "closed") @@ ("closing" :> "closed") @@ ("close" :> "closed") @@
    ("merge" :> "merge") @@ ("merges" :> "merge") @@ ("merged" :> "merge") @@
    ("merging" :> "merge") @@
    ("required" :> "required") @@ ("requireds" :> "required") @@
    ("requir" :> "required") @@ ("requiring" :> "required") @@
    ("require" :> "required") @@
    ("new" :> "new") @@ ("news" :> "new")

TOKENIZED_STATUSES ==
    ({"assigned", "bug"} :> "assigned_bug") @@ ({"closed"} :> "closed") @@
    ({"merge", "required"} :> "merge_required") @@ ({"new"} :> "new")

\* CONF.options("fixed_queries"): the two queries of the test configuration
\* and a third, as an installation may configure one, whose value holds '='.
ConfFixedQueries == <<"moshpit", "last headbang", "formula">>
FIXED_QUERIES_REVERSED ==
    [p \in {ToString(i - 1) \o UNIQUE_F : i \in DOMAIN ConfFixedQueries} |->
        ConfFixedQueries[CHOOSE i \in DOMAIN ConfFixedQueries :
                             ToString(i - 1) \o UNIQUE_F = p]]

\* CONF.get("fixed_queries", name): the template, one atom per character
\* the code can act on and one per word otherwise.
ConfFixedQuery(name) ==
    IF name = "moshpit"
    THEN <<"keywords", "=", "moshpit", "&", "status", "=", "!", "closed",
           "&", "summary", "=", "~", "metal">>
    ELSE IF name = "last headbang"
    THEN <<"reporter", "=", "%(user)s", "&", "milestone", "=",
           "%(month)s", " ", "%(year)s">>
    ELSE <<"keywords", "=", "!", "x", "=", "y", "&", "summary", "=", "~",
           "a", "=", "b">>

KNOWN ==
    ("cc" :> "cc") @@ ("status" :> "status") @@ ("component" :> "component") @@
    ("components" :> "component") @@ ("title" :> "summary") @@
    ("summary" :> "summary") @@ ("text" :> "description") @@
    ("description" :> "description") @@ ("owner" :> "owner") @@
    ("reporter" :> "reporter") @@ ("reported" :> "reporter") @@
    ("keywords" :> "keywords") @@ ("keyword" :> "keywords") @@
    ("severity" :> "priority") @@ ("priority" :> "priority") @@
    ("milestone" :> "milestone") @@ ("resolution" :> "resolution") @@
    ("points" :> "points") @@ ("requests" :> "requests")

RESOLUTIONS == <<"fixed", "invalid", "wontfix", "duplicate", "worksforme",
                 "cantfix">>

NUMBERS ==
    ("one" :> 1) @@ ("two" :> 2) @@ ("three" :> 3) @@ ("four" :> 4) @@
    ("five" :> 5) @@ ("six" :> 6) @@ ("seven" :> 7) @@ ("eight" :> 8) @@
    ("nine" :> 9) @@ ("ten" :> 10) @@ ("eleven" :> 11) @@ ("twelve" :> 12) @@
    ("thirteen" :> 13) @@ ("fourteen" :> 14) @@ ("fifteen" :> 15) @@
    ("sixteen" :> 16) @@ ("seventeen" :> 17) @@ ("eighteen" :> 18) @@
    ("nineteen" :> 19) @@ ("twenty" :> 20)

(***************************************************************************)
(* The parser's output.  A document d has the token texts d.orth (the      *)
(* sentence after preprocessing, in order) and the head d.head[i] of every *)
(* token (0 for a root); d.texts maps the placeholder of a quoted literal  *)
(* to its text, d.user is the caller's user, d.now the instant of the call. *)
(***************************************************************************)
Tokens(d) == 1..Len(d.orth)

orth_(d, i) == d.orth[i]

\* token.lower_ : the text is lower-cased before parsing, only the component
\* placeholders inserted afterwards carry upper-case letters.
lower_(d, i) ==
    IF d.orth[i] \in DOMAIN REVERSED_COMPONENTS
    THEN "0ylaqbs0ydqe8" ELSE d.orth[i]

\* token.pos_ : the part of speech the parser gives a word.
pos_(d, i) ==
    LET w == d.orth[i] IN
    IF w \in {"a", "the", "all", "my"} THEN "DET"
    ELSE IF w \in {"or", "and", "but"} THEN "CONJ"
    ELSE IF w \in {"in", "on", "to", "from", "since", "after", "before",
                   "with", "of"} THEN "ADP"
    ELSE IF w \in {",", "."} THEN "PUNCT"
    ELSE IF w \in {"is", "have", "'ve", "starts", "ends", "show",
                   "changed", "modified"} THEN "VERB"
    ELSE IF w \in {"not", "n't", "never", "ago", "yesterday"} THEN "ADV"
    ELSE IF w \in {"1", "2", "one", "two"} THEN "NUM"
    ELSE "NOUN"

RECURSIVE Ascending(_)
Ascending(S) ==
    IF S = {} THEN <<>>
    ELSE LET m == CHOOSE x \in S : \A y \in S : x <= y
         IN  <<m>> \o Ascending(S \ {m})

\* The dependents listed as the left ones followed by all of them, so that a
\* left dependent comes twice.
childrenRepeated(d, i) ==
    Ascending({j \in Tokens(d) : d.head[j] = i /\ j < i})
        \o Ascending({j \in Tokens(d) : d.head[j] = i})

\* token.children : the left dependents, then the right ones, in sentence order.
children(d, i) == Ascending({j \in Tokens(d) : d.head[j] = i})

\* _is_something(tok, checks)
is_something(d, i, checks) ==
    \E k \in DOMAIN children(d, i) : lower_(d, children(d, i)[k]) \in checks

is_negated(d, i) == is_something(d, i, negations)

(***************************************************************************)
(* get_filter.  A filter (curr_filter) is a record; an absent key is None  *)
(* for "name", the empty string for "op", has = FALSE for "val" and 0 for  *)
(* name_, op_ and val_.  A value is a Python str (islist = FALSE, one      *)
(* item) or a Python list of str.                                          *)
(***************************************************************************)
NoVal == [has |-> FALSE, islist |-> FALSE, items |-> <<>>]
StrVal(s) == [has |-> TRUE, islist |-> FALSE, items |-> <<s>>]
ListVal(l) == [has |-> TRUE, islist |-> TRUE, items |-> l]

NewFilter ==
    [name |-> None, op |-> <<>>, val |-> NoVal,
     not |-> FALSE, list |-> FALSE, status_tokens |-> {},
     extra_tokens |-> <<>>, name_ |-> 0, op_ |-> 0, val_ |-> 0]

HasName(f) == f.name # None
HasOp(f) == f.op # <<>>
HasVal(f) == f.val.has
Full(f) == HasName(f) /\ HasOp(f) /\ HasVal(f)

\* PRIORITIES.index(curr_val): 0 stands for the ValueError of a value that
\* is no element of the list (a str that is no priority, or a list).
PrioritiesIndex(val) ==
    IF ~val.islist /\ \E k \in DOMAIN PRIORITIES : <<PRIORITIES[k]>> = val.items[1]
    THEN CHOOSE k \in DOMAIN PRIORITIES : <<PRIORITIES[k]>> = val.items[1]
    ELSE 0

StrList(l) == [k \in DOMAIN l |-> <<l[k]>>]

\* The slice as it would be if it began after the current priority.
HigherExclusive(val) ==
    SubSeq(PRIORITIES, PrioritiesIndex(val) + 1, Len(PRIORITIES))

\* Line 310: PRIORITIES[PRIORITIES.index(curr_val):].
Higher(val) == SubSeq(PRIORITIES, PrioritiesIndex(val), Len(PRIORITIES))
\* Line 319: PRIORITIES[:PRIORITIES.index(curr_val) + 1].
Lower(val) == SubSeq(PRIORITIES, 1, PrioritiesIndex(val))

\* The branch of the if/elif chain of get_filter that a token takes: the
\* first whose condition holds, 0 for the final else.
Branch(d, i, f, level) ==
    LET o == orth_(d, i)
        l == lower_(d, i)
        full == Full(f)
    IN  IF o \in DOMAIN KNOWN /\ ~HasName(f) THEN 1
        ELSE IF l \in partials /\ ~HasOp(f) THEN 2
        ELSE IF l \in negated_partials /\ ~HasOp(f) THEN 3
        ELSE IF l \in exacts /\ ~HasOp(f) THEN 4
        ELSE IF l \in negated_exacts /\ ~HasOp(f) THEN 5
        ELSE IF l \in negations /\ ~f.not THEN 6
        ELSE IF l \in startings /\ ~HasOp(f) THEN 7
        ELSE IF l \in endings /\ ~HasOp(f) THEN 8
        ELSE IF o \in DOMAIN REVERSED_COMPONENTS /\ ~full THEN 9
        ELSE IF o \in DOMAIN d.texts THEN 10
        ELSE IF l \in Range(PRIORITIES) /\ ~full THEN 11
        ELSE IF l \in DOMAIN TICKET_TYPES /\ ~full THEN 12
        ELSE IF o = "higher" /\ f.name = "priority" /\ HasVal(f) THEN 13
        ELSE IF o = "lower" /\ f.name = "priority" /\ HasVal(f) THEN 14
        ELSE IF l \in Range(STATUSES) /\ ~full THEN 15
        ELSE IF l \in Range(RESOLUTIONS) /\ ~full THEN 16
        ELSE IF l \in mes /\ ~full /\ ~HasVal(f) THEN 17
        ELSE IF HasName(f) /\ HasOp(f) /\ ~HasVal(f)
                /\ pos_(d, i) \notin {"ADP", "DET", "PUNCT", "CONJ"} THEN 18
        ELSE IF o \in on_date /\ level = 0 THEN 19
        ELSE IF o \in start_date /\ level = 0 THEN 20
        ELSE IF o \in end_date /\ level = 0 THEN 21
        ELSE 0

\* The operator as it would be if the branches that set a value set "="
\* whether or not an operator is there.
DefaultOpAlways(f) == <<"=">>

DefaultOp(f) == IF HasOp(f) THEN f.op ELSE <<"=">>

\* The assignments of the branch b (lines 243-353), without the bookkeeping
\* that follows the chain.
ApplyBranch(d, i, f, b) ==
    LET o == orth_(d, i) IN
    CASE b = 1 -> [f EXCEPT !.name = KNOWN[o]]
      [] b = 2 -> [f EXCEPT !.op = <<"=", "~">>]
      [] b = 3 -> [f EXCEPT !.op = <<"=", "!", "~">>, !.not = TRUE]
      [] b = 4 -> [f EXCEPT !.op = <<"=">>]
      [] b = 5 -> [f EXCEPT !.op = <<"=", "!">>, !.not = TRUE]
      [] b = 6 -> [f EXCEPT !.not = TRUE]
      [] b = 7 -> [f EXCEPT !.op = <<"=", "^">>]
      [] b = 8 -> [f EXCEPT !.op = <<"=", "$">>]
      [] b = 9 -> [f EXCEPT !.name = "component", !.op = DefaultOp(f),
                            !.val = StrVal(<<REVERSED_COMPONENTS[o]>>)]
      [] b = 10 -> [f EXCEPT !.val = StrVal(d.texts[o]), !.op = DefaultOp(f)]
      [] b = 11 -> [f EXCEPT !.name = "priority", !.op = DefaultOp(f),
                             !.val = StrVal(<<o>>)]
      [] b = 12 -> [f EXCEPT !.name = "type", !.op = DefaultOp(f),
                             !.val = StrVal(<<TICKET_TYPES[o]>>)]
      [] b = 13 -> [f EXCEPT !.list = TRUE,
                             !.val = ListVal(StrList(Higher(f.val)))]
      [] b = 14 -> [f EXCEPT !.list = TRUE,
                             !.val = ListVal(StrList(Lower(f.val)))]
      [] b = 15 -> [f EXCEPT !.name = "status", !.op = DefaultOp(f),
                             !.val = StrVal(<<o>>)]
      [] b = 16 -> [f EXCEPT !.name = "resolution", !.op = DefaultOp(f),
                             !.val = StrVal(<<o>>)]
      [] b = 17 -> [f EXCEPT !.val = StrVal(<<d.user>>)]
      [] b = 18 -> [f EXCEPT !.val = StrVal(<<o>>)]
      [] b = 19 -> [f EXCEPT !.name = "on"]
      [] b = 20 -> [f EXCEPT !.name = "from"]
      [] b = 21 -> [f EXCEPT !.name = "to"]
      [] OTHER -> [f EXCEPT !.extra_tokens = Append(@, i)]

\* The branches that negate as they would be if only the negated operators
\* did, and a plain negation word (lines 262-266) did not.
SetsNegatesWithOperator(b) == b \in {3, 5}

\* The branches after which every following token of the subtree is negated.
SetsNegates(b) == b \in {3, 5, 6}

\* The ValueError of PRIORITIES.index (lines 310 and 319).
BranchRaises(f, b) == b \in {13, 14} /\ PrioritiesIndex(f.val) = 0

\* Lines 355-356: the token joins status_tokens when it is a status sub-word.
AddStatusToken(d, i, f) ==
    IF orth_(d, i) \in DOMAIN TRANSLATE_STATUS_TOKENS
    THEN [f EXCEPT !.status_tokens = @ \cup {i}] ELSE f

\* The negation as it would be if a negated operator were switched back.
NegateOpToggling(f, processed, negates) ==
    IF processed /\ negates /\ HasOp(f)
    THEN IF "!" \in Range(f.op)
         THEN [f EXCEPT !.op = Replace(@, <<"=", "!">>, <<"=">>)]
         ELSE [f EXCEPT !.op = Replace(@, <<"=">>, <<"=", "!">>)]
    ELSE f

\* The negation as it would be without the test for "!" of line 360.
NegateOpAgain(f, processed, negates) ==
    IF processed /\ negates /\ HasOp(f)
    THEN [f EXCEPT !.op = Replace(@, <<"=">>, <<"=", "!">>)]
    ELSE f

\* Lines 360-361: the operator gets its negated spelling.
NegateOp(f, processed, negates) ==
    IF processed /\ negates /\ HasOp(f) /\ "!" \notin Range(f.op)
    THEN [f EXCEPT !.op = Replace(@, <<"=">>, <<"=", "!">>)]
    ELSE f

\* Lines 362-364: the token that changed name, op or val is remembered.
MarkChanged(f0, f, i) ==
    [f EXCEPT !.name_ = IF f.name # f0.name THEN i ELSE @,
              !.op_ = IF f.op # f0.op THEN i ELSE @,
              !.val_ = IF f.val # f0.val THEN i ELSE @]

\* The filter after the call of get_filter on token i took branch b.
Visited(d, i, f0, b, negates) ==
    MarkChanged(f0,
                NegateOp(AddStatusToken(d, i, ApplyBranch(d, i, f0, b)),
                         b # 0, negates),
                i)

VisitRecord(i, b, negates, level, f) ==
    [tok |-> i, branch |-> b, negates |-> negates, level |-> level, f |-> f]

\* The call as it would be if line 359 appended the token whether or not a
\* rule applied.
VisitBranchConsumingAll(d, i, w, b, negates, level) ==
    IF BranchRaises(w.f, b)
    THEN [w EXCEPT !.raised = TRUE]
    ELSE [w EXCEPT !.f = Visited(d, i, w.f, b, negates),
                   !.ap = Append(@, i),
                   !.visits = Append(@, VisitRecord(i, b, negates, level,
                                         Visited(d, i, w.f, b, negates)))]

\* One call of get_filter on a token that is not yet processed, up to the
\* loop over the children (lines 233-365).  w is the state of the walk: the
\* shared filter w.f, the list w.ap (already_processed), w.raised, and the
\* record w.visits of the calls made so far.
VisitBranch(d, i, w, b, negates, level) ==
    IF BranchRaises(w.f, b)
    THEN [w EXCEPT !.raised = TRUE]
    ELSE [w EXCEPT !.f = Visited(d, i, w.f, b, negates),
                   !.ap = IF b # 0 THEN Append(@, i) ELSE @,
                   !.visits = Append(@, VisitRecord(i, b, negates, level,
                                         Visited(d, i, w.f, b, negates)))]

\* The visit as it would be if the negation of line 360 went by the filter's
\* flag instead of the negates of the call.
VisitNegatedByFlag(d, i, w, negates, level) ==
    VisitBranch(d, i, w, Branch(d, i, w.f, level),
                negates \/ w.f.not \/ SetsNegates(Branch(d, i, w.f, level)),
                level)

Visit(d, i, w, negates, level) ==
    VisitBranch(d, i, w, Branch(d, i, w.f, level),
                negates \/ SetsNegates(Branch(d, i, w.f, level)), level)

InSeq(x, s) == \E k \in DOMAIN s : s[k] = x

\* get_filter(token, texts, user, already_processed, curr_filter, negates,
\* level) and its recursion into token.children (lines 227-230, 368-371).
\* The calls still to make are kept in call order: the head of `calls` is
\* the call being made, the children of its token come before its siblings.
RECURSIVE get_filter_rec(_, _, _)
get_filter_rec(d, calls, w) ==
    IF Len(calls) = 0 \/ w.raised THEN w
    ELSE LET c == Head(calls)
             cs == children(d, c.tok)
             neg == c.negates \/ SetsNegates(Branch(d, c.tok, w.f, c.level))
             skip == InSeq(c.tok, w.ap)
         IN  get_filter_rec(d,
                 (IF skip THEN <<>>
                  ELSE [k \in DOMAIN cs |-> [tok |-> cs[k], negates |-> neg,
                                             level |-> c.level + 1]])
                     \o Tail(calls),
                 IF skip THEN w ELSE Visit(d, c.tok, w, c.negates, c.level))

\* The call of line 541: a fresh filter, the copy of already_processed.
get_filter(d, i, already_processed) ==
    get_filter_rec(d, <<[tok |-> i, negates |-> FALSE, level |-> 0]>>,
                   [f |-> NewFilter, ap |-> already_processed,
                    raised |-> FALSE, visits |-> <<>>])

(***************************************************************************)
(* Dates.  An instant is a day number; NoTime is Python's None.  The       *)
(* calendar has months of 30 days and years of 360.                        *)
(***************************************************************************)
NoTime == -1

IsInt(v) == v \in {ToString(n) : n \in 0..20}
IntOf(v) == CHOOSE n \in 0..20 : ToString(n) = v

\* A datetime is a count of instants; DayParts instants make a day.
DayParts == 2
Days(n) == n * DayParts

\* The fields of a datetime, over a calendar of 12 months of 30 days.
DateOf(t) == t \div DayParts
MonthOf(t) == (DateOf(t) \div 30) % 12
YearOf(t) == DateOf(t) \div 360
DayOf(t) == DateOf(t) % 30

\* dateparser.parse(text): the phrases the library resolves, relative to the
\* current instant (the time of day is kept); a lone number is taken as the
\* day of the current month (lines 421-423); every other text gives None.
DateparserParse(ws, now) ==
    IF ws = <<"yesterday">> THEN now - Days(1)
    ELSE IF ws = <<"today">> THEN now
    ELSE IF Len(ws) = 3 /\ IsInt(ws[1]) /\ ws[3] = "ago"
            /\ ws[2] \in {"day", "days"} THEN now - Days(IntOf(ws[1]))
    ELSE IF Len(ws) = 3 /\ IsInt(ws[1]) /\ ws[3] = "ago"
            /\ ws[2] \in {"week", "weeks"} THEN now - Days(7 * IntOf(ws[1]))
    ELSE IF Len(ws) = 1 /\ IsInt(ws[1])
    THEN now - Days(DayOf(now)) + Days(IntOf(ws[1]) % 30)
    ELSE NoTime

\* str(NUMBERS.get(i.lower_, i.lower_))
NumberValue(d, i) ==
    IF lower_(d, i) \in DOMAIN NUMBERS THEN ToString(NUMBERS[lower_(d, i)])
    ELSE lower_(d, i)

Reverse(s) == [k \in DOMAIN s |-> s[Len(s) + 1 - k]]

\* The for loop of parse_date (lines 382-406) over the tokens ts, from the
\* loop state a: first the body of the loop for a token that is no conjunction (lines 387-406).
ParseDateStep(d, i, a) ==
    LET value == NumberValue(d, i)
        b == [a EXCEPT !.stokens = Append(@, value),
                       !.rtokens = Append(@, i)]
    IN  IF pos_(d, i) = "DET" THEN a
        ELSE IF a.number = None /\ IsInt(value)
        THEN [b EXCEPT !.number = value, !.ago_tokens = Append(@, i)]
        ELSE IF orth_(d, i) \in {"ago", "last", "past"} /\ ~a.ago
        THEN [b EXCEPT !.ago = TRUE, !.ago_tokens = Append(@, i)]
        ELSE IF a.dtype = None
        THEN [b EXCEPT !.dtype = orth_(d, i), !.ago_tokens = Append(@, i)]
        ELSE b

RECURSIVE ParseDateLoop(_, _, _)
ParseDateLoop(d, ts, a) ==
    IF Len(ts) = 0 \/ pos_(d, Head(ts)) = "CONJ" THEN a
    ELSE ParseDateLoop(d, Tail(ts), ParseDateStep(d, Head(ts), a))

\* parse_date as it would be if the tokens were added to the list before
\* the attempts to resolve them.
ParseDateExtendingFirst(d, tokens, already_processed) ==
    LET a == ParseDateLoop(d, tokens,
                 [stokens |-> <<>>, rtokens |-> <<>>, ago_tokens |-> <<>>,
                  number |-> None, dtype |-> None, ago |-> FALSE])
        number == IF a.number = None THEN "1" ELSE a.number
        rel == IF a.ago
               THEN DateparserParse(<<number, a.dtype, "ago">>, d.now)
               ELSE NoTime
        straight == DateparserParse(a.stokens, d.now)
        reversed == DateparserParse(Reverse(a.stokens), d.now)
    IN  IF rel # NoTime
        THEN [result |-> rel, ap |-> already_processed \o a.ago_tokens]
        ELSE IF Len(a.stokens) = 1 /\ a.number # None
        THEN [result |-> NoTime, ap |-> already_processed \o a.rtokens]
        ELSE IF straight # NoTime
        THEN [result |-> straight, ap |-> already_processed \o a.rtokens]
        ELSE IF reversed # NoTime
        THEN [result |-> reversed, ap |-> already_processed \o a.rtokens]
        ELSE [result |-> NoTime, ap |-> already_processed \o a.rtokens]

\* parse_date(tokens, already_processed): the result and the list as the
\* call leaves it.
parse_date(d, tokens, already_processed) ==
    LET a == ParseDateLoop(d, tokens,
                 [stokens |-> <<>>, rtokens |-> <<>>, ago_tokens |-> <<>>,
                  number |-> None, dtype |-> None, ago |-> FALSE])
        number == IF a.number = None THEN "1" ELSE a.number
        rel == IF a.ago
               THEN DateparserParse(<<number, a.dtype, "ago">>, d.now)
               ELSE NoTime
        straight == DateparserParse(a.stokens, d.now)
        reversed == DateparserParse(Reverse(a.stokens), d.now)
    IN  IF rel # NoTime
        THEN [result |-> rel, ap |-> already_processed \o a.ago_tokens]
        ELSE IF Len(a.stokens) = 1 /\ a.number # None
        THEN [result |-> NoTime, ap |-> already_processed]
        ELSE IF straight # NoTime
        THEN [result |-> straight, ap |-> already_processed \o a.rtokens]
        ELSE IF reversed # NoTime
        THEN [result |-> reversed, ap |-> already_processed \o a.rtokens]
        ELSE [result |-> NoTime, ap |-> already_processed]

\* The date as it would be formatted with the time of day ("%Y-%m-%d %H").
StrftimeYmdH(t) ==
    ToString(YearOf(t)) \o "-" \o ToString(MonthOf(t)) \o "-"
        \o ToString(DayOf(t)) \o " " \o ToString(t % DayParts)

\* datetime.strftime("%Y-%m-%d") and the fields of fixed_interpolation.
StrftimeYmd(t) ==
    ToString(YearOf(t)) \o "-" \o ToString(MonthOf(t)) \o "-" \o ToString(DayOf(t))
StrftimeB(t) == "month" \o ToString(MonthOf(t))
StrftimeY(t) == ToString(YearOf(t))
StrftimeD(t) == ToString(DayOf(t))

\* fixed_interpolation (lines 479-489)
fixed_interpolation(user, now) ==
    ("%(user)s" :> user) @@ ("%(month)s" :> StrftimeB(now)) @@
    ("%(year)s" :> StrftimeY(now)) @@ ("%(day)s" :> StrftimeD(now)) @@
    ("%(last_month)s" :> StrftimeB(now - Days(30))) @@
    ("%(last_month_year)s" :> StrftimeY(now - Days(30))) @@
    ("%(last_year)s" :> StrftimeY(now - Days(360))) @@
    ("%(yesterday)s" :> StrftimeD(now - Days(1)))

\* fixed_query % fixed_interpolation
Interpolate(template, vars) ==
    [k \in DOMAIN template |->
        IF template[k] \in DOMAIN vars THEN vars[template[k]] ELSE template[k]]

\* The toggle as it would be if it only ever added a negation.
NegateFixedAdding(fixed) == Replace(fixed, <<"=">>, <<"=", "!">>)

\* The toggle of one clause of a negated macro (lines 525-528).
NegateFixed(fixed) ==
    IF Contains(fixed, <<"=", "!">>)
    THEN Replace(fixed, <<"=", "!">>, <<"=">>)
    ELSE Replace(fixed, <<"=">>, <<"=", "!">>)

(***************************************************************************)
(* natural_to_query.  The state of one compilation is a record r: the      *)
(* document r.d, the index r.i of the token the for loop of line 503 takes *)
(* next, the locals of the function, r.pc ("scan", "done" after the return *)
(* of line 626, "raised" when an exception left the function, "off" for a  *)
(* compilation that was never started) and r.result, the returned string.  *)
(* r.log records, per loop iteration, what the iteration did.              *)
(***************************************************************************)
\* The strings s for which the test `s in "all"` of line 509 is true.
SubstringsOfAll == {"", "a", "l", "al", "ll", "all"}

LogEntry(tok, kind) ==
    [tok |-> tok, kind |-> kind, f |-> NewFilter, visits |-> <<>>,
     macro |-> <<>>, filter |-> <<>>, agg |-> <<>>, owner |-> <<>>]

\* Lines 517-533: the clauses appended for a macro placeholder.
FixedQueryClauses(d, tok) ==
    LET fixed_query ==
            Interpolate(ConfFixedQuery(FIXED_QUERIES_REVERSED[orth_(d, tok)]),
                        fixed_interpolation(d.user, d.now))
        parts == Split(fixed_query, "&")
    IN  IF is_negated(d, tok)
        THEN [k \in DOMAIN parts |-> NegateFixed(parts[k])]
        ELSE <<fixed_query>>

\* The assignment as it would be without the tests for an empty boundary.
AssignDateOverwriting(f, t, start_time, end_time) ==
    IF t = NoTime
    THEN [ok |-> FALSE, start_time |-> start_time, end_time |-> end_time]
    ELSE IF f.name = "on"
    THEN [ok |-> TRUE, start_time |-> t, end_time |-> t]
    ELSE IF ~HasName(f) \/ f.name = "from"
    THEN [ok |-> TRUE, start_time |-> t, end_time |-> end_time]
    ELSE IF f.name = "to"
    THEN [ok |-> TRUE, start_time |-> start_time, end_time |-> t]
    ELSE [ok |-> FALSE, start_time |-> start_time, end_time |-> end_time]

\* Lines 544-560: the date boundaries after a resolved instant t, or the
\* AssertionError (ok = FALSE) that sends the iteration on to the filter.
AssignDate(f, t, start_time, end_time) ==
    IF t = NoTime
    THEN [ok |-> FALSE, start_time |-> start_time, end_time |-> end_time]
    ELSE IF start_time = NoTime /\ end_time = NoTime /\ f.name = "on"
    THEN [ok |-> TRUE, start_time |-> t, end_time |-> t]
    ELSE IF start_time = NoTime /\ (~HasName(f) \/ f.name = "from")
    THEN [ok |-> TRUE, start_time |-> t, end_time |-> end_time]
    ELSE IF f.name = "to" /\ end_time = NoTime
    THEN [ok |-> TRUE, start_time |-> start_time, end_time |-> t]
    ELSE [ok |-> FALSE, start_time |-> start_time, end_time |-> end_time]

\* f["val"] == "me"
IsMe(val) == ~val.islist /\ val.items[1] \in {<<"me">>, <<"m", "e">>}

\* The values the loop of line 569 iterates over: the list, the str wrapped
\* in a list, or the characters of a str when f["list"] is set.
FilterValues(f, user) ==
    LET val == IF IsMe(f.val) THEN StrVal(<<user>>) ELSE f.val IN
    IF ~f.list THEN val.items
    ELSE IF val.islist THEN val.items
    ELSE [k \in DOMAIN val.items[1] |-> <<val.items[1][k]>>]

\* Lines 562-578: the clauses of a filter; the KeyError of a missing key
\* leaves none.
FilterClauses(f, user) ==
    IF Full(f)
    THEN [k \in DOMAIN FilterValues(f, user) |->
             <<f.name>> \o f.op \o FilterValues(f, user)[k]]
    ELSE <<>>

\* The status as it would be if a part of the sub-words of a status were
\* enough to find it.
AggregatedStatusOfPart(d, f) ==
    LET status_tokens == {TRANSLATE_STATUS_TOKENS[orth_(d, t)] :
                             t \in f.status_tokens}
        found == {k \in DOMAIN TOKENIZED_STATUSES :
                      status_tokens # {} /\ status_tokens \subseteq k}
    IN  IF found # {}
        THEN TOKENIZED_STATUSES[CHOOSE k \in found : TRUE] ELSE None

\* Lines 585-598: the status the status tokens of the walk add up to, None
\* when there is none.
AggregatedStatus(d, f) ==
    LET status_tokens == {TRANSLATE_STATUS_TOKENS[orth_(d, t)] :
                             t \in f.status_tokens}
    IN  IF status_tokens \in DOMAIN TOKENIZED_STATUSES
        THEN TOKENIZED_STATUSES[status_tokens] ELSE None

\* Lines 562-605, for the filter f of the walk from token r.i: the filter's
\* clauses (emitted), the status aggregation (agg) and the owner clause.
StatusClause(f, status) ==
    IF f.not THEN <<"status", "=", "!", status>> ELSE <<"status", "=", status>>

\* The owner clause as it would be without the test of line 602.
OwnerClauseAffirmative(d, tok) == <<"owner", "=", d.user>>

\* Lines 602-605: the owner clause.
OwnerClause(d, tok) ==
    IF is_negated(d, tok) THEN <<"owner", "=", "!", d.user>>
    ELSE <<"owner", "=", d.user>>

\* Line 585 as it would be without its test: aggregation also after an
\* emitted status filter.
AggregatesAfterStatus(d, f) == AggregatedStatus(d, f) # None

\* Line 585: aggregation is tried unless a status filter was emitted, and
\* gives a clause when the sub-words add up to a status.
Aggregates(d, f) ==
    (f.name # "status" \/ ~Full(f)) /\ AggregatedStatus(d, f) # None

\* The end of the iteration as it would be without the appends of lines
\* 573-575 and 596-597 to already_processed.
EmitWithoutCommit(r, entry, f, clauses, agg, owner) ==
    [r EXCEPT
       !.i = @ + 1,
       !.all_provided = @ \/ lower_(r.d, r.i) \in SubstringsOfAll,
       !.trac_query = @ \o clauses \o agg \o owner,
       !.status_provided = @ \/ (Full(f) /\ f.name = "status") \/ agg # <<>>,
       !.resolution_provided = @ \/ (Full(f) /\ f.name = "resolution"),
       !.log = Append(@, [entry EXCEPT !.filter = clauses, !.agg = agg,
                                       !.owner = owner])]

Emit(r, entry, f, clauses, agg, owner) ==
    [r EXCEPT
       !.i = @ + 1,
       !.all_provided = @ \/ lower_(r.d, r.i) \in SubstringsOfAll,
       !.trac_query = @ \o clauses \o agg \o owner,
       !.already_processed =
            @ \o (IF Full(f) THEN <<f.name_, f.op_, f.val_>> ELSE <<>>)
              \o (IF agg # <<>> THEN Ascending(f.status_tokens) ELSE <<>>),
       !.status_provided = @ \/ (Full(f) /\ f.name = "status") \/ agg # <<>>,
       !.resolution_provided = @ \/ (Full(f) /\ f.name = "resolution"),
       !.log = Append(@, [entry EXCEPT !.filter = clauses, !.agg = agg,
                                       !.owner = owner])]

EmitFilter(r, entry, f) ==
    Emit(r, entry, f, FilterClauses(f, r.d.user),
         IF Aggregates(r.d, f)
         THEN <<StatusClause(f, AggregatedStatus(r.d, f))>> ELSE <<>>,
         IF lower_(r.d, r.i) \in {"my", "tome"} /\ ~Full(f)
            /\ ~Aggregates(r.d, f)
         THEN <<OwnerClause(r.d, r.i)>> ELSE <<>>)

\* The iteration as it would be if the list the walk and parse_date worked
\* on were committed as soon as a date resolves, assigned or not.
DateOrFilterCommitting(r, entry, f, pd, ad) ==
    IF ad.ok
    THEN [r EXCEPT !.i = @ + 1,
                   !.all_provided = @ \/ lower_(r.d, r.i) \in SubstringsOfAll,
                   !.start_time = ad.start_time, !.end_time = ad.end_time,
                   !.already_processed = pd.ap,
                   !.log = Append(@, [entry EXCEPT !.kind = "date"])]
    ELSE IF pd.result # NoTime
    THEN EmitFilter([r EXCEPT !.already_processed = pd.ap], entry, f)
    ELSE EmitFilter(r, entry, f)

\* Lines 544-560 and on: the date boundary is assigned and the iteration
\* ends, or the iteration goes on to the filter.
DateOrFilter(r, entry, f, pd, ad) ==
    IF ad.ok
    THEN [r EXCEPT !.i = @ + 1,
                   !.all_provided = @ \/ lower_(r.d, r.i) \in SubstringsOfAll,
                   !.start_time = ad.start_time, !.end_time = ad.end_time,
                   !.already_processed = pd.ap,
                   !.log = Append(@, [entry EXCEPT !.kind = "date"])]
    ELSE EmitFilter(r, entry, f)

AfterParseDate(r, entry, f, pd) ==
    DateOrFilter(r, entry, f, pd,
                 AssignDate(f, pd.result, r.start_time, r.end_time))

\* The iteration as it would be if get_filter worked on already_processed
\* itself instead of the copy of line 540.
AfterWalkShared(r, w) ==
    IF w.raised
    THEN [r EXCEPT !.pc = "raised",
                   !.all_provided = @ \/ lower_(r.d, r.i) \in SubstringsOfAll,
                   !.log = Append(@, LogEntry(r.i, "raise"))]
    ELSE AfterParseDate([r EXCEPT !.already_processed = w.ap],
             [LogEntry(r.i, "walk") EXCEPT !.f = w.f, !.visits = w.visits],
             w.f, parse_date(r.d, w.f.extra_tokens, w.ap))

\* Lines 540-543: the walk from the token, then the date extractor on its
\* extra tokens.
AfterWalk(r, w) ==
    IF w.raised
    THEN [r EXCEPT !.pc = "raised",
                   !.all_provided = @ \/ lower_(r.d, r.i) \in SubstringsOfAll,
                   !.log = Append(@, LogEntry(r.i, "raise"))]
    ELSE AfterParseDate(r,
             [LogEntry(r.i, "walk") EXCEPT !.f = w.f, !.visits = w.visits],
             w.f, parse_date(r.d, w.f.extra_tokens, w.ap))

\* Lines 535-605: the iteration for a token that is no change modifier and
\* no macro.
ExtractFilter(r) == AfterWalk(r, get_filter(r.d, r.i, r.already_processed))

\* One iteration of the for loop of line 503.
ScanIteration(r) ==
    LET d == r.d
        tok == r.i
        all == r.all_provided \/ lower_(d, tok) \in SubstringsOfAll
    IN  IF InSeq(tok, r.already_processed)
        THEN [r EXCEPT !.i = @ + 1,
                       !.log = Append(@, LogEntry(tok, "skip"))]
        ELSE IF lower_(d, tok) \in change_modifiers
        THEN [r EXCEPT !.i = @ + 1, !.all_provided = all, !.changed = TRUE,
                       !.already_processed = Append(@, tok),
                       !.log = Append(@, LogEntry(tok, "change"))]
        ELSE IF orth_(d, tok) \in DOMAIN FIXED_QUERIES_REVERSED
        THEN [r EXCEPT !.i = @ + 1, !.all_provided = all,
                       !.trac_query = @ \o FixedQueryClauses(d, tok),
                       !.already_processed = Append(@, tok),
                       !.log = Append(@, [LogEntry(tok, "macro") EXCEPT
                                   !.macro = FixedQueryClauses(d, tok)])]
        ELSE ExtractFilter(r)

\* The date clause as it would be if the scan kept no change-modifier flag.
DateClauseOnCreation(r) ==
    IF r.start_time # NoTime \/ r.end_time # NoTime
    THEN << <<"time", "=">>
            \o (IF r.start_time = NoTime THEN <<>>
                ELSE <<StrftimeYmd(r.start_time)>>)
            \o <<"..">>
            \o (IF r.end_time = NoTime THEN <<>>
                ELSE <<StrftimeYmd(r.end_time)>>) >>
    ELSE <<>>

\* The date clause as it would be without the test of line 610.
DateClauseUnguarded(r) ==
    << <<IF r.changed THEN "changetime" ELSE "time", "=">>
       \o (IF r.start_time = NoTime THEN <<>>
           ELSE <<StrftimeYmd(r.start_time)>>)
       \o <<"..">>
       \o (IF r.end_time = NoTime THEN <<>>
           ELSE <<StrftimeYmd(r.end_time)>>) >>

\* Lines 610-620: the date-range clause.
DateClause(r) ==
    IF r.start_time # NoTime \/ r.end_time # NoTime
    THEN << <<IF r.changed THEN "changetime" ELSE "time", "=">>
            \o (IF r.start_time = NoTime THEN <<>>
                ELSE <<StrftimeYmd(r.start_time)>>)
            \o <<"..">>
            \o (IF r.end_time = NoTime THEN <<>>
                ELSE <<StrftimeYmd(r.end_time)>>) >>
    ELSE <<>>

\* The default clause as it would be if an emitted resolution filter did not
\* count (the guard of line 622 without resolution_provided).
DefaultClauseIgnoringResolution(r) ==
    IF ~r.status_provided /\ ~r.all_provided
    THEN << <<"status", "=", "!", "closed">> >>
    ELSE <<>>

\* Lines 622-623: the default status clause.
DefaultClause(r) ==
    IF ~r.status_provided /\ ~r.all_provided /\ ~r.resolution_provided
    THEN << <<"status", "=", "!", "closed">> >>
    ELSE <<>>

\* Lines 607-626: what follows the loop.
\* The return as it would be with the default clause ahead of the date range.
AssembleDefaultFirst(r) ==
    LET q == r.trac_query \o DefaultClause(r) \o DateClause(r)
    IN  [r EXCEPT !.trac_query = q, !.result = Join(q, "&"), !.pc = "done"]

\* Lines 607-626: the date-range clause, the default clause and the join.
Assemble(r) ==
    LET q == r.trac_query \o DateClause(r) \o DefaultClause(r)
    IN  [r EXCEPT !.trac_query = q, !.result = Join(q, "&"), !.pc = "done"]

\* The clauses a reader of the returned string finds by splitting at "&"
\* (natural_tests.py, create_test).
ClauseSet(result) == Range(Split(result, "&"))

\* The state of line 502, before the first iteration.
NewRun(d) ==
    [d |-> d, i |-> 1, already_processed |-> <<>>, trac_query |-> <<>>,
     start_time |-> NoTime, end_time |-> NoTime, changed |-> FALSE,
     status_provided |-> FALSE, all_provided |-> FALSE,
     resolution_provided |-> FALSE, pc |-> "scan", result |-> <<>>,
     log |-> <<>>]

\* natural_to_query(query, user) from line 495 to its return or exception.
RECURSIVE RunToEnd(_)
RunToEnd(r) ==
    IF r.pc # "scan" THEN r
    ELSE RunToEnd(IF r.i <= Len(r.d.orth) THEN ScanIteration(r)
                  ELSE Assemble(r))

natural_to_query(d) == RunToEnd(NewRun(d))

(***************************************************************************)
(* The state machine.  run[c] is the state of compilation c.               *)
(***************************************************************************)
VARIABLES run
vars == <<run>>

Comps == {1, 2}

\* The heads of a parse of n tokens: every token reaches a root.
RECURSIVE ReachesRoot(_, _, _)
ReachesRoot(h, i, k) ==
    IF h[i] = 0 THEN TRUE
    ELSE IF k = 0 THEN FALSE
    ELSE ReachesRoot(h, h[i], k - 1)

Heads(n) ==
    {h \in [1..n -> 0..n] : \A i \in 1..n : ReachesRoot(h, i, n)}

OffRun == [NewRun([orth |-> <<>>, head |-> <<>>, texts |-> <<>>,
                   user |-> "", now |-> 0]) EXCEPT !.pc = "off"]

\* The placeholder of the k-th quoted literal (line 450).
Literal(k) == ToString(k) \o UNIQUE_M
\* The placeholder of the k-th macro and of the k-th component.
Macro(k) == ToString(k) \o UNIQUE_F
Component(k) == ToString(k) \o UNIQUE_C

\* The calls are made one after the other: compilation c runs when the
\* compilations before it have returned or raised.
Turn(c) == \A b \in Comps : b < c => run[b].pc # "scan"

Scan(c) ==
    /\ run[c].pc = "scan"
    /\ Turn(c)
    /\ run[c].i <= Len(run[c].d.orth)
    /\ run' = [run EXCEPT ![c] = ScanIteration(run[c])]

Finish(c) ==
    /\ run[c].pc = "scan"
    /\ Turn(c)
    /\ run[c].i > Len(run[c].d.orth)
    /\ run' = [run EXCEPT ![c] = Assemble(run[c])]

Next == \E c \in Comps : Scan(c) \/ Finish(c)

\* The documents a compilation starts from.
Users == {"alex"}
Nows == {Days(400)}
NoTexts == <<>>
\* A quoted literal with operator-like characters, 'a&b'.
Texts == (Literal(0) :> <<"a", "&", "b">>)

\* One compilation is about to start on a document of a length in L over the
\* words V, with the quoted literals T, a user of U and a day of N.
Start(L, V, T, U, N) ==
    \E len \in L : \E o \in [1..len -> V] : \E h \in Heads(len) :
        \E u \in U : \E n \in N :
            run = (1 :> NewRun([orth |-> o, head |-> h, texts |-> T,
                                user |-> u, now |-> n]))
                  @@ (2 :> OffRun)

\* One compilation, over a vocabulary with a word of every kind.
Vocab == {"summary", "is", "not", "normal", "higher", "bug", "closed",
          "my", "foo", "yesterday", "changed", Macro(0)}
Init == Start(1..MaxLen, Vocab, NoTexts, Users, Nows)
Spec == Init /\ [][Next]_vars

\* One compilation over the words around priorities and their ranges.
VocabPriority == {"severity", "my", "normal", "highest", "higher", "lower",
                  "not", "bug", Literal(0)}
\* A user whose name is a priority, too.
UsersPriority == {"alex", "normal"}
InitPriority == Start(1..MaxLen, VocabPriority, Texts, UsersPriority, Nows)
SpecPriority == InitPriority /\ [][Next]_vars

\* One compilation over the words around statuses, resolutions and "all".
VocabStatus == {"a", "all", "closed", "not", "fixed", "bug", "assigned",
                "status", "my", Macro(0)}
InitStatus == Start(1..MaxLen, VocabStatus, NoTexts, Users, Nows)
SpecStatus == InitStatus /\ [][Next]_vars

\* One compilation over the operator and negation triggers; the sentences of
\* LongLen tokens have a name, an operator, a negation and a value.
LongLen == 4
VocabOperator == {"summary", "is", "like", "starts", "ends", "not", "isnot",
                  "notin", "foo", Literal(0)}
VocabAnchor == {"summary", "starts", "not", "foo"}
InitOperator ==
    \/ Start(1..MaxLen, VocabOperator, Texts, Users, Nows)
    \/ Start({LongLen}, VocabAnchor, Texts, Users, Nows)
SpecOperator == InitOperator /\ [][Next]_vars

(***************************************************************************)
(* What a finished compilation did, read from its log.                     *)
(***************************************************************************)
Done(c) == run[c].pc = "done"

\* The clauses the scan appended, in order.
EntryClauses(e) == e.macro \o e.filter \o e.agg \o e.owner
ScanClauses(log) == Concat([k \in DOMAIN log |-> EntryClauses(log[k])])

DefaultStatus == <<"status", "=", "!", "closed">>
DefaultAppended(r) ==
    r.trac_query = ScanClauses(r.log) \o DateClause(r) \o <<DefaultStatus>>

\* A complete filter named n was emitted.
FilterEmitted(r, n) ==
    \E k \in DOMAIN r.log :
        r.log[k].kind = "walk" /\ Full(r.log[k].f) /\ r.log[k].f.name = n
\* Status aggregation emitted a clause.
StatusAggregated(r) == \E k \in DOMAIN r.log : r.log[k].agg # <<>>
\* A token with the text w reached line 509.
Scanned(r, w) ==
    \E k \in DOMAIN r.log :
        r.log[k].kind # "skip" /\ lower_(r.d, r.log[k].tok) = w
HasToken(r, w) == \E i \in Tokens(r.d) : lower_(r.d, i) = w

(***************************************************************************)
(* C1.  natural_to_query returns a query string for every sentence, tree   *)
(* and user: no exception escapes, also when 'higher' or 'lower' is        *)
(* visited with name 'priority' and any value set before.                  *)
(***************************************************************************)
NeverRaises == \A c \in Comps : run[c].pc # "raised"

(***************************************************************************)
(* C2.  Default-status invariant: a finished compilation of a sentence     *)
(* with no token 'all', in which no filter named status or resolution was  *)
(* emitted and status aggregation emitted nothing, returns a clause set    *)
(* that contains status=!closed.                                           *)
(***************************************************************************)
DefaultStatusInvariant ==
    \A c \in Comps :
        (/\ Done(c)
         /\ ~HasToken(run[c], "all")
         /\ ~FilterEmitted(run[c], "status")
         /\ ~FilterEmitted(run[c], "resolution")
         /\ ~StatusAggregated(run[c]))
        => DefaultStatus \in ClauseSet(run[c].result)

(***************************************************************************)
(* C3.  The default clause is not appended when the scan emitted a         *)
(* complete filter named status or resolution, emitted a status clause by  *)
(* aggregation, or scanned a token 'all': the returned clauses are then    *)
(* the scan's clauses and the date clause, nothing more.                   *)
(***************************************************************************)
DefaultSuppressed ==
    \A c \in Comps :
        (/\ Done(c)
         /\ \/ FilterEmitted(run[c], "status")
            \/ FilterEmitted(run[c], "resolution")
            \/ StatusAggregated(run[c])
            \/ Scanned(run[c], "all"))
        => /\ run[c].trac_query = ScanClauses(run[c].log) \o DateClause(run[c])
           /\ run[c].result = Join(run[c].trac_query, "&")

\* "not closed": the explicit filter status=!closed is the only clause.
DefaultSuppressedReached ==
    /\ Done(1)
    /\ FilterEmitted(run[1], "status")
    /\ run[1].trac_query = <<DefaultStatus>>

(***************************************************************************)
(* C9.  A macro whose template holds a status clause is no status filter:  *)
(* when a macro was expanded and the sentence has no token 'all', no       *)
(* emitted filter named status or resolution and no aggregated status,     *)
(* the default clause is appended after the scan's clauses.                *)
(***************************************************************************)
MacroExpanded(r) ==
    \E k \in DOMAIN r.log :
        /\ r.log[k].kind = "macro"
        /\ \E j \in DOMAIN r.log[k].macro : Contains(r.log[k].macro[j], <<"status">>)
DefaultAfterMacro ==
    \A c \in Comps :
        (/\ Done(c)
         /\ MacroExpanded(run[c])
         /\ ~HasToken(run[c], "all")
         /\ ~FilterEmitted(run[c], "status")
         /\ ~FilterEmitted(run[c], "resolution")
         /\ ~StatusAggregated(run[c]))
        => DefaultAppended(run[c])

(***************************************************************************)
(* C6.  Every clause emitted from a filter is field, operator, value with  *)
(* the operator one of =, =~, =^, =$, =! and =!~.                          *)
(***************************************************************************)
SpecOperators ==
    {<<"=">>, <<"=", "~">>, <<"=", "^">>, <<"=", "$">>,
     <<"=", "!">>, <<"=", "!", "~">>}
\* The spellings that negating =^ and =$ adds.
NegatedAnchors == {<<"=", "!", "^">>, <<"=", "!", "$">>}

\* The clauses the scan emitted from filters are spelled with operators of
\* the set ops.
FilterClausesUse(ops) ==
    \A c \in Comps : \A k \in DOMAIN run[c].log :
        LET e == run[c].log[k]
            head == <<e.f.name>> \o e.f.op
        IN  e.filter # <<>> =>
                /\ e.f.op \in ops
                /\ \A j \in DOMAIN e.filter :
                       /\ Len(e.filter[j]) >= Len(head)
                       /\ SubSeq(e.filter[j], 1, Len(head)) = head

OnlySpecOperators == FilterClausesUse(SpecOperators)

\* C6, as the code has it: the operator is one of the six spellings of the
\* specification or a negated starts-with =!^ or a negated ends-with =!$.
OperatorsWithNegatedAnchors ==
    FilterClausesUse(SpecOperators \cup NegatedAnchors)

\* A clause with a negated starts-with was emitted.
NegatedAnchorEmitted ==
    \E k \in DOMAIN run[1].log :
        /\ run[1].log[k].filter # <<>>
        /\ run[1].log[k].f.op = <<"=", "!", "^">>

(***************************************************************************)
(* C4.  Range expansion: a 'higher' visited with name 'priority' and a     *)
(* configured priority p as value makes the value the suffix of the        *)
(* priority ordering from p on and sets the list flag, a 'lower' the       *)
(* prefix up to p; the output then has one priority clause per element of  *)
(* that sub-list and no other priority clause.                             *)
(***************************************************************************)
\* The sub-list a visit of 'higher' (branch 13) or 'lower' (branch 14)
\* computes from the value the filter had before the visit.
SubList(before, b) ==
    LET p == PrioritiesIndex(before.val)
    IN  IF b = 13 THEN SubSeq(PRIORITIES, p, Len(PRIORITIES))
        ELSE SubSeq(PRIORITIES, 1, p)

Expanded(visits, j) ==
    /\ j > 1
    /\ visits[j].f.val.islist
    /\ visits[j].f.val.items = StrList(SubList(visits[j - 1].f, visits[j].branch))
    /\ visits[j].f.list

IsPriorityClause(cl) == Len(cl) > 0 /\ cl[1] = "priority"
PriorityClauses(r) == SelectSeq(Split(r.result, "&"), IsPriorityClause)

\* The clauses cls are one clause priority<op>x for each x of sub, in order.
OnePerElement(cls, sub) ==
    /\ Len(cls) = Len(sub)
    /\ \A k \in DOMAIN cls :
           /\ IsPriorityClause(cls[k])
           /\ Len(cls[k]) >= 3
           /\ cls[k][Len(cls[k])] = sub[k]

RangeExpansion ==
    \A c \in Comps : \A k \in DOMAIN run[c].log :
        \A j \in DOMAIN run[c].log[k].visits :
            LET vs == run[c].log[k].visits IN
            (Done(c) /\ vs[j].branch \in {13, 14}) =>
                /\ Expanded(vs, j)
                /\ OnePerElement(PriorityClauses(run[c]),
                                 SubList(vs[j - 1].f, vs[j].branch))

\* C4, as the code has it: the value becomes the sub-list and the list flag
\* is set; when the walk ends with the filter complete and that value still
\* in place, the iteration emits for the filter one priority clause per
\* element of the sub-list, in the order of the list, and nothing else.
RangeExpansionInWalk ==
    \A c \in Comps : \A k \in DOMAIN run[c].log :
        \A j \in DOMAIN run[c].log[k].visits :
            LET e == run[c].log[k]
                vs == e.visits
            IN  vs[j].branch \in {13, 14} =>
                    /\ Expanded(vs, j)
                    /\ (Full(e.f) /\ e.f.val = vs[j].f.val) =>
                           /\ e.kind = "walk"
                           /\ e.f.name = "priority"
                           /\ OnePerElement(e.filter,
                                  SubList(vs[j - 1].f, vs[j].branch))
                           /\ \A n \in DOMAIN e.filter :
                                  e.filter[n] = <<"priority">> \o e.f.op
                                      \o <<SubList(vs[j - 1].f, vs[j].branch)[n]>>

\* "normal ... higher" emitted priority=normal, priority=high and
\* priority=highest.
RangeExpanded ==
    \E k \in DOMAIN run[1].log :
        /\ \E j \in DOMAIN run[1].log[k].visits :
               run[1].log[k].visits[j].branch = 13
        /\ run[1].log[k].filter =
               << <<"priority", "=", "normal">>, <<"priority", "=", "high">>,
                  <<"priority", "=", "highest">> >>

(***************************************************************************)
(* C7.  Literal passthrough: when the placeholder of a quoted literal is   *)
(* taken as the value of a filter, the filter is emitted as exactly one    *)
(* clause, which carries the literal's text unchanged.                     *)
(***************************************************************************)
\* The value of the filter of the log entry e was set by a quoted literal.
ValueIsLiteral(d, e) ==
    /\ e.kind = "walk"
    /\ Full(e.f)
    /\ e.f.val_ # 0
    /\ orth_(d, e.f.val_) \in DOMAIN d.texts

LiteralPassthrough ==
    \A c \in Comps : \A k \in DOMAIN run[c].log :
        LET e == run[c].log[k]
            d == run[c].d
        IN  ValueIsLiteral(d, e) =>
                e.filter = << <<e.f.name>> \o e.f.op
                              \o d.texts[orth_(d, e.f.val_)] >>

(***************************************************************************)
(* Two compilations of related sentences.                                  *)
(***************************************************************************)
Shift(i, k) == IF i >= k THEN i + 1 ELSE i

\* The document d with the word w as a new token at position k, attached as
\* a child of the token r of d (r = 0: as a root).
InsertToken(d, k, w, r) ==
    [d EXCEPT
       !.orth = [j \in 1..(Len(d.orth) + 1) |->
                    IF j < k THEN d.orth[j]
                    ELSE IF j = k THEN w ELSE d.orth[j - 1]],
       !.head = [j \in 1..(Len(d.orth) + 1) |->
                    IF j = k THEN Shift(r, k)
                    ELSE IF j < k THEN Shift(d.head[j], k)
                    ELSE Shift(d.head[j - 1], k)]]

Roots(d) == {i \in Tokens(d) : d.head[i] = 0}

\* The sentence of compilation 1, and the same sentence with the negation
\* word 'not' as one more child of one of its root tokens.
StartNegated(L, V, T, U, N) ==
    \E len \in L : \E o \in [1..len -> V] : \E h \in Heads(len) :
        \E u \in U : \E n \in N :
            \E k \in 1..(len + 1) : \E r \in {i \in 1..len : h[i] = 0} :
                LET d == [orth |-> o, head |-> h, texts |-> T,
                          user |-> u, now |-> n]
                IN  run = (1 :> NewRun(d))
                          @@ (2 :> NewRun(InsertToken(d, k, "not", r)))

VocabNegation == {"summary", "is", "like", "foo", "bug", "not"}
InitNegation == StartNegated(1..MaxLen, VocabNegation, NoTexts, Users, Nows)
SpecNegation == InitNegation /\ [][Next]_vars

(***************************************************************************)
(* C5.  Negation symmetry: when the output of S contains field=value, the  *)
(* output of S with a negation word attached as a child of the same root   *)
(* token contains field=!value, and field=~value becomes field=!~value,    *)
(* whichever token of the walk sets the operator.                          *)
(***************************************************************************)
\* A clause field=value or field=~value, and its negated spelling.
IsPlain(cl) ==
    /\ Len(cl) >= 2
    /\ cl[2] = "="
    /\ Len(cl) >= 3 => cl[3] \notin {"!", "^", "$"}
NegatedClause(cl) == <<cl[1], "=", "!">> \o SubSeq(cl, 3, Len(cl))

\* Compilation 2 has the sentence of compilation 1 with 'not' at position k
\* under the root r.
NegatedAt(k, r) ==
    /\ Done(1) /\ Done(2)
    /\ r \in Roots(run[1].d)
    /\ k \in 1..(Len(run[1].d.orth) + 1)
    /\ run[2].d = InsertToken(run[1].d, k, "not", r)

\* The entry of the scan iteration of compilation c that started at tok.
EntryOf(c, tok) ==
    run[c].log[CHOOSE n \in DOMAIN run[c].log : run[c].log[n].tok = tok]

NegationSymmetry ==
    \A k \in 1..(MaxLen + 2) : \A r \in 1..(MaxLen + 1) :
        NegatedAt(k, r) =>
            \A j \in DOMAIN EntryOf(1, r).filter :
                IsPlain(EntryOf(1, r).filter[j]) =>
                    NegatedClause(EntryOf(1, r).filter[j])
                        \in ClauseSet(run[2].result)

\* The child of r on the path from the token o up to r.
RECURSIVE ChildToward(_, _, _)
ChildToward(d, r, o) ==
    IF d.head[o] = r \/ d.head[o] = 0 THEN o ELSE ChildToward(d, r, d.head[o])

\* In the walk from r, the operator is set before a new child of r at
\* position k is visited: by r, or below a child of r that precedes k.
OperatorSetBefore(d, e, k, r) ==
    /\ e.f.op_ # 0
    /\ \/ e.f.op_ = r
       \/ ChildToward(d, r, e.f.op_) < k

\* C5, as the code has it: when the walk from the root r emits field=value
\* or field=~value, no negation trigger fires in it and its operator is set
\* before the place of the new negation word, the walk from r in the
\* negated sentence emits the same clauses with =! or =!~.
NegationSymmetryInWalk ==
    \A k \in 1..(MaxLen + 2) : \A r \in 1..(MaxLen + 1) :
        NegatedAt(k, r) =>
            LET e == EntryOf(1, r)
                n == EntryOf(2, Shift(r, k))
            IN  (/\ e.kind = "walk" /\ e.filter # <<>>
                 /\ ~e.f.not
                 /\ OperatorSetBefore(run[1].d, e, k, r))
                => /\ n.kind = "walk"
                   /\ n.filter = [j \in DOMAIN e.filter |->
                                      NegatedClause(e.filter[j])]
                   /\ \A j \in DOMAIN n.filter :
                          n.filter[j] \in ClauseSet(run[2].result)

\* "bug" gives type=bug and "bug" with 'not' under it gives type=!bug.
NegationSymmetric ==
    /\ \E k \in 1..(MaxLen + 1) : \E r \in 1..MaxLen : NegatedAt(k, r)
    /\ <<"type", "=", "bug">> \in ClauseSet(run[1].result)
    /\ <<"type", "=", "!", "bug">> \in ClauseSet(run[2].result)

\* The document d with the word w as a new first token and new root, above
\* the roots of d.
Prefixed(d, w) ==
    [d EXCEPT
       !.orth = <<w>> \o d.orth,
       !.head = <<0>> \o [j \in DOMAIN d.head |->
                              IF d.head[j] = 0 THEN 1 ELSE d.head[j] + 1]]

\* The sentence of compilation 1, and 'show' followed by the same sentence.
StartPrefixed(L, V, T, U, N) ==
    \E len \in L : \E o \in [1..len -> V] : \E h \in Heads(len) :
        \E u \in U : \E n \in N :
            LET d == [orth |-> o, head |-> h, texts |-> T,
                      user |-> u, now |-> n]
            IN  run = (1 :> NewRun(d)) @@ (2 :> NewRun(Prefixed(d, "show")))

VocabPrefix == {"to", "summary", "is", "foo", "bug", "closed", "yesterday",
                "my", "not"}
InitPrefix == StartPrefixed(1..MaxLen, VocabPrefix, NoTexts, Users, Nows)
SpecPrefix == InitPrefix /\ [][Next]_vars

(***************************************************************************)
(* C10.  Prefix invariance: 'show' placed as a new root above the root of  *)
(* the tree of S and scanned first does not change the set of clauses.     *)
(***************************************************************************)
PrefixedPair ==
    /\ Done(1) /\ Done(2)
    /\ run[2].d = Prefixed(run[1].d, "show")

PrefixInvariance ==
    PrefixedPair => ClauseSet(run[1].result) = ClauseSet(run[2].result)

\* The clauses the first iteration of a compilation appended, and what it
\* left in already_processed.
FirstIteration(c) == run[c].log[1]

\* The walk from the new root emitted nothing and consumed nothing.
PrefixWalkIdle ==
    /\ FirstIteration(2).kind = "walk"
    /\ FirstIteration(2).filter = <<>>
    /\ FirstIteration(2).agg = <<>>

\* S has one root, its first token, and the walk from it completes a filter
\* whose name, operator or value token is that root and whose name is no
\* date pseudo-name.
RootFilterFirst ==
    /\ Roots(run[1].d) = {1}
    /\ FirstIteration(1).kind = "walk"
    /\ Full(FirstIteration(1).f)
    /\ 1 \in {FirstIteration(1).f.name_, FirstIteration(1).f.op_,
              FirstIteration(1).f.val_}
    /\ FirstIteration(1).f.name \notin {"on", "from", "to"}

\* C10, as the code has it: the clause set is unchanged when the walk from
\* the new root emits and consumes nothing, and when S has a single root,
\* its first token, whose walk completes a filter that consumes the root.
PrefixInvarianceWhen ==
    (PrefixedPair /\ (PrefixWalkIdle \/ RootFilterFirst)) =>
        ClauseSet(run[1].result) = ClauseSet(run[2].result)

\* "my" and "show my" both give owner=alex (the walk from 'show' is idle);
PrefixIdleReached ==
    /\ PrefixedPair /\ PrefixWalkIdle
    /\ <<"owner", "=", "alex">> \in ClauseSet(run[2].result)
    /\ ClauseSet(run[1].result) = ClauseSet(run[2].result)

\* Two compilations of one sentence for one user: the first at the instant
\* of Nows, the second later on the same day or a month later.
LaterNows == {Days(400) + 1, Days(430)}
StartTwice(L, V, T, U) ==
    \E len \in L : \E o \in [1..len -> V] : \E h \in Heads(len) :
        \E u \in U : \E n \in Nows : \E m \in LaterNows :
            run = (1 :> NewRun([orth |-> o, head |-> h, texts |-> T,
                                user |-> u, now |-> n]))
                  @@ (2 :> NewRun([orth |-> o, head |-> h, texts |-> T,
                                   user |-> u, now |-> m]))

VocabClock == {Macro(1), "yesterday", "ago", "week", "bug", "to", "changed"}
InitClock == StartTwice(1..MaxLen, VocabClock, NoTexts, Users)
SpecClock == InitClock /\ [][Next]_vars

(***************************************************************************)
(* C8.  Determinism: two runs with the identical sentence, user and        *)
(* configuration return the identical set of clauses, whatever else        *)
(* differs between the runs, the moment of the call included.              *)
(***************************************************************************)
SameInput ==
    /\ Done(1) /\ Done(2)
    /\ run[1].d.orth = run[2].d.orth
    /\ run[1].d.head = run[2].d.head
    /\ run[1].d.texts = run[2].d.texts
    /\ run[1].d.user = run[2].d.user

VocabTermination == {"summary", "is", "foo", "not", "my", "higher",
                     "yesterday", "changed", Macro(0)}
InitTermination ==
    Start(0..MaxLen, VocabTermination, NoTexts, Users, Nows)
\* The interpreter runs a call to its end: a step that can be taken is taken.
SpecTermination == InitTermination /\ [][Next]_vars /\ WF_vars(Next)

Ended(c) == run[c].pc \in {"done", "raised"}

\* The steps a compilation has left at most: the tokens not yet scanned and
\* the assembly.
StepsLeft(r) == IF r.pc = "scan" THEN Len(r.d.orth) + 2 - r.i ELSE 0

\* The guards of Scan and Finish cover every state of a running compilation.
CanStep(c) ==
    /\ Turn(c)
    /\ run[c].i \in 1..(Len(run[c].d.orth) + 1)

OneIterationPerToken(r) ==
    /\ \A k \in DOMAIN r.log : r.log[k].tok = k
    /\ Len(r.log) <= Len(r.d.orth)
    /\ r.pc = "done" => Len(r.log) = Len(r.d.orth)

VisitsOnce(r) ==
    \A k \in DOMAIN r.log :
        \A a, b \in DOMAIN r.log[k].visits :
            a # b => r.log[k].visits[a].tok # r.log[k].visits[b].tok

Termination ==
    /\ [][\A c \in Comps : run'[c] # run[c] =>
              StepsLeft(run'[c]) < StepsLeft(run[c])]_vars
    /\ [](Ended(1) \/ CanStep(1))
    /\ [](OneIterationPerToken(run[1]) /\ VisitsOnce(run[1]))

\* A sentence of MaxLen tokens in one tree has been compiled: one iteration
\* per token, the first of them a walk over the whole tree.
TerminatedAfterFullWalk ==
    /\ run[1].pc = "done"
    /\ Len(run[1].d.orth) = MaxLen
    /\ Len(run[1].log) = MaxLen
    /\ Len(run[1].log[1].visits) = MaxLen
    /\ \E k \in DOMAIN run[1].log[1].visits :
           run[1].log[1].visits[k].branch = 0

(***************************************************************************)
(* Two compilations whose steps interleave: natural_to_query keeps its     *)
(* filters, its consumed list, its boundaries and its flags in locals      *)
(* (lines 491-502), so a step of compilation c changes run[c] alone.       *)
(***************************************************************************)
\* The consumed list kept in one place for every compilation.
ScanSharingConsumed(c) ==
    /\ run[c].pc = "scan"
    /\ run[c].i <= Len(run[c].d.orth)
    /\ run' = [b \in Comps |->
                  IF b = c THEN ScanIteration(run[c])
                  ELSE [run[b] EXCEPT !.already_processed =
                            ScanIteration(run[c]).already_processed]]

ScanInterleaved(c) ==
    /\ run[c].pc = "scan"
    /\ run[c].i <= Len(run[c].d.orth)
    /\ run' = [run EXCEPT ![c] = ScanIteration(run[c])]

FinishInterleaved(c) ==
    /\ run[c].pc = "scan"
    /\ run[c].i > Len(run[c].d.orth)
    /\ run' = [run EXCEPT ![c] = Assemble(run[c])]

NextInterleaved == \E c \in Comps : ScanInterleaved(c) \/ FinishInterleaved(c)

\* Two compilations are about to start, each on its own document.
StartBoth(L, V, T, U, N) ==
    \E l1, l2 \in L :
        \E o1 \in [1..l1 -> V] : \E o2 \in [1..l2 -> V] :
            \E h1 \in Heads(l1) : \E h2 \in Heads(l2) :
                \E u \in U : \E n \in N :
                    run = (1 :> NewRun([orth |-> o1, head |-> h1, texts |-> T,
                                        user |-> u, now |-> n]))
                          @@ (2 :> NewRun([orth |-> o2, head |-> h2,
                                           texts |-> T, user |-> u,
                                           now |-> n]))

PairLen == 2
VocabInterleaved == {"my", "closed", "not", "yesterday", Macro(0)}
InitInterleaved == StartBoth(1..PairLen, VocabInterleaved, NoTexts, Users, Nows)
SpecInterleaved == InitInterleaved /\ [][NextInterleaved]_vars

(***************************************************************************)
(* C12.  When the steps of two compilations interleave in any order, each  *)
(* compilation goes through the iterations it goes through alone and ends  *)
(* as it ends alone: with the same query, or raising.                      *)
(***************************************************************************)
AsAlone(r) ==
    IF r.pc = "scan"
    THEN r.log = SubSeq(natural_to_query(r.d).log, 1, Len(r.log))
    ELSE r = natural_to_query(r.d)

VocabPlain == {"foo", "show", "a", "l", "bug", "my", "yesterday", "changed",
               Macro(0)}
InitPlain == Start(0..MaxLen, VocabPlain, NoTexts, Users, Nows)
SpecPlain == InitPlain /\ [][Next]_vars

\* Every iteration walked from its token, no visit of a walk applied a rule
\* or met a status sub-word, and no walk gave a date.
NothingMatched(r) ==
    \A k \in DOMAIN r.log :
        /\ r.log[k].kind = "walk"
        /\ r.log[k].f.status_tokens = {}
        /\ \A j \in DOMAIN r.log[k].visits : r.log[k].visits[j].branch = 0

EmptyOrDefault ==
    \A c \in Comps :
        (Done(c) /\ NothingMatched(run[c])) =>
            run[c].result \in {<<>>, DefaultStatus}

\* Three tokens that match nothing have been compiled to the default clause.
NothingMatchedReached ==
    /\ Done(1)
    /\ NothingMatched(run[1])
    /\ Len(run[1].log) = MaxLen
    /\ run[1].result = DefaultStatus

(***************************************************************************)
(* C14.  A filter produces field clauses exactly when its name, op and     *)
(* value are all set at the end of its walk; a filter that misses one of   *)
(* the three produces none.  A complete filter whose value is a scalar     *)
(* produces the one clause name+op+value, and one whose value is a list    *)
(* produces one clause name+op+element per element, in list order.         *)
(***************************************************************************)
ClausesOfValue(e) ==
    IF ~Full(e.f) THEN e.filter = <<>>
    ELSE IF e.f.val.islist
    THEN e.filter = [k \in DOMAIN e.f.val.items |->
                        <<e.f.name>> \o e.f.op \o e.f.val.items[k]]
    ELSE e.filter = << <<e.f.name>> \o e.f.op \o e.f.val.items[1] >>

ClausesFromCompleteFilter ==
    \A c \in Comps : \A k \in DOMAIN run[c].log :
        run[c].log[k].kind \in {"walk", "date"} => ClausesOfValue(run[c].log[k])

(***************************************************************************)
(* One compilation over the words of dates: two days, the pseudo-names of  *)
(* the boundaries and a change modifier.                                   *)
(***************************************************************************)
VocabDate == {"yesterday", "today", "on", "since", "to", "changed", "bug"}
InitDate == Start(1..MaxLen, VocabDate, NoTexts, Users, Nows)
SpecDate == InitDate /\ [][Next]_vars

(***************************************************************************)
(* C15.  The returned query has exactly one date-range clause if a start   *)
(* or an end boundary was set during the scan and none otherwise.  Its     *)
(* field is changetime exactly when the scan met a change-modifier token,  *)
(* before or after the tokens of the date, and time otherwise; each side   *)
(* is the boundary as YYYY-MM-DD, or empty when the boundary is unset.     *)
(***************************************************************************)
IsDateRangeClause(clause) == clause[1] \in {"time", "changetime"}

ChangeModifierSeen(r) == \E k \in DOMAIN r.log : r.log[k].kind = "change"

BoundarySide(t) == IF t = NoTime THEN <<>> ELSE <<StrftimeYmd(t)>>

ExpectedDateRange(r) ==
    <<IF ChangeModifierSeen(r) THEN "changetime" ELSE "time", "=">>
        \o BoundarySide(r.start_time) \o <<"..">> \o BoundarySide(r.end_time)

OneDateRangeClause ==
    \A c \in Comps :
        Done(c) =>
            SelectSeq(Split(run[c].result, "&"), IsDateRangeClause) =
                IF run[c].start_time = NoTime /\ run[c].end_time = NoTime
                THEN <<>>
                ELSE <<ExpectedDateRange(run[c])>>

\* A date was resolved, a change modifier came after it, and the query has
\* the clause changetime=<day>.. .
ChangeModifierAfterDate ==
    /\ Done(1)
    /\ \E j, k \in DOMAIN run[1].log :
           /\ j < k
           /\ run[1].log[j].kind = "date"
           /\ run[1].log[k].kind = "change"
    /\ run[1].end_time = NoTime
    /\ <<"changetime", "=", StrftimeYmd(run[1].start_time), "..">>
           \in ClauseSet(run[1].result)

(***************************************************************************)
(* C16.  Filter completeness: once a filter has name, op and value all set *)
(* during a walk, no token visited later in that walk changes any of the   *)
(* three, be it a negation word, a quoted literal or 'higher'/'lower'.     *)
(***************************************************************************)
\* The visit j of the walk of the log entry e comes after the filter was
\* complete.
AfterComplete(e, j) == j > 1 /\ Full(e.visits[j - 1].f)

SameTriple(f, g) == f.name = g.name /\ f.op = g.op /\ f.val = g.val

CompleteFilterFrozen ==
    \A c \in Comps : \A k \in DOMAIN run[c].log :
        \A j \in DOMAIN run[c].log[k].visits :
            AfterComplete(run[c].log[k], j) =>
                SameTriple(run[c].log[k].visits[j - 1].f,
                           run[c].log[k].visits[j].f)

\* C16, as the code has it: once the filter is complete its name stays, its
\* value changes only at a quoted literal (which replaces it) and at
\* 'higher'/'lower' (which replace it by the range), and its op changes
\* only at a negation word that fires, to the negated spelling.
CompleteTripleChange(f, v) ==
    /\ v.f.name = f.name
    /\ v.f.val # f.val => v.branch \in {10, 13, 14}
    /\ v.f.op # f.op =>
           /\ v.branch = 6
           /\ "!" \notin Range(f.op)
           /\ v.f.op = Replace(f.op, <<"=">>, <<"=", "!">>)

CompleteFilterChangesOnly ==
    \A c \in Comps : \A k \in DOMAIN run[c].log :
        \A j \in DOMAIN run[c].log[k].visits :
            AfterComplete(run[c].log[k], j) =>
                CompleteTripleChange(run[c].log[k].visits[j - 1].f,
                                     run[c].log[k].visits[j])

\* In one walk a priority word met a complete filter and left it as it was,
\* and 'higher' met a complete filter and replaced its value.
CompleteFilterVisited ==
    \E k \in DOMAIN run[1].log :
        \E i, j \in DOMAIN run[1].log[k].visits :
            /\ AfterComplete(run[1].log[k], i)
            /\ lower_(run[1].d, run[1].log[k].visits[i].tok)
                   \in Range(PRIORITIES)
            /\ SameTriple(run[1].log[k].visits[i - 1].f,
                          run[1].log[k].visits[i].f)
            /\ AfterComplete(run[1].log[k], j)
            /\ run[1].log[k].visits[j].branch = 13
            /\ run[1].log[k].visits[j].f.val.islist

(***************************************************************************)
(* C17.  Date boundaries are write-once.  A step assigns a resolved        *)
(* instant to both boundaries only when the walk's pseudo-name is 'on' and *)
(* both are empty, to the start boundary alone only when it is empty and   *)
(* the walk has no name or the pseudo-name 'from', and to the end boundary *)
(* alone only when it is empty and the pseudo-name is 'to'.  A boundary    *)
(* that holds a value is changed by no later step of the compilation.      *)
(***************************************************************************)
LastEntry(r) == r.log[Len(r.log)]

\* r is a compilation before a step and q the same compilation after it.
BoundaryAssigned(r, q) ==
    /\ Len(q.log) = Len(r.log) + 1
    /\ LastEntry(q).kind = "date"
    /\ \/ /\ LastEntry(q).f.name = "on"
          /\ r.start_time = NoTime /\ r.end_time = NoTime
          /\ q.start_time # NoTime /\ q.end_time = q.start_time
       \/ /\ ~HasName(LastEntry(q).f) \/ LastEntry(q).f.name = "from"
          /\ r.start_time = NoTime
          /\ q.start_time # NoTime /\ q.end_time = r.end_time
       \/ /\ LastEntry(q).f.name = "to"
          /\ r.end_time = NoTime
          /\ q.end_time # NoTime /\ q.start_time = r.start_time

BoundaryStep(r, q) ==
    /\ r.start_time # NoTime => q.start_time = r.start_time
    /\ r.end_time # NoTime => q.end_time = r.end_time
    /\ (q.start_time # r.start_time \/ q.end_time # r.end_time) =>
           BoundaryAssigned(r, q)

BoundariesWriteOnce ==
    [][\A c \in Comps : BoundaryStep(run[c], run'[c])]_vars

\* 'yesterday' gave the start boundary, and a later walk from 'today', a
\* date that resolves, left it as it was.
BoundaryKept ==
    /\ Done(1)
    /\ run[1].start_time = run[1].d.now - Days(1)
    /\ run[1].end_time = NoTime
    /\ \E j, k \in DOMAIN run[1].log :
           /\ j < k
           /\ run[1].log[j].kind = "date"
           /\ run[1].log[k].kind = "walk"
           /\ orth_(run[1].d, k) = "today"
           /\ run[1].log[k].f.extra_tokens = <<k>>

(***************************************************************************)
(* C18.  Negation is idempotent.  An op that has a negated spelling is     *)
(* left as it is by every later visit of the walk, so the op has at most   *)
(* one "!" after any number of negation triggers; and the negated flag of  *)
(* a filter, once true, stays true: a second negation word met while the   *)
(* filter is negated does not switch it back.                              *)
(***************************************************************************)
Bangs(op) == Cardinality({k \in DOMAIN op : op[k] = "!"})

NegatedOnce(f, g) ==
    /\ Bangs(g.op) <= 1
    /\ Bangs(f.op) = 1 => g.op = f.op
    /\ f.not => g.not

NegationIdempotent ==
    \A c \in Comps : \A k \in DOMAIN run[c].log :
        \A j \in DOMAIN run[c].log[k].visits :
            NegatedOnce(IF j = 1 THEN NewFilter
                        ELSE run[c].log[k].visits[j - 1].f,
                        run[c].log[k].visits[j].f)

\* A walk met a negation word that fired and negated the op, and later a
\* second negation word, in the negated subtree, a rule applied to it: the
\* op has its one "!" and the flag is true.
NegatedTwice ==
    \E k \in DOMAIN run[1].log :
        \E i, j \in DOMAIN run[1].log[k].visits :
            /\ i < j
            /\ run[1].log[k].visits[i].branch = 6
            /\ Bangs(run[1].log[k].visits[i].f.op) = 1
            /\ lower_(run[1].d, run[1].log[k].visits[j].tok) \in negations
            /\ run[1].log[k].visits[j].negates
            /\ run[1].log[k].visits[j].branch # 0
            /\ Bangs(run[1].log[k].visits[j].f.op) = 1
            /\ run[1].log[k].visits[j].f.not

(***************************************************************************)
(* C19.  Whenever the op of a filter has a negated spelling, the token at  *)
(* which it became negated is a negation trigger that fired or a           *)
(* descendant of one within the same walk, and the filter's negated flag   *)
(* is true.  An op set by a token that is in the subtree of no negation    *)
(* trigger stays un-negated.                                               *)
(***************************************************************************)
\* The token t is the token a or below it in the tree.
RECURSIVE Under(_, _, _, _)
Under(d, t, a, k) ==
    IF t = a THEN TRUE
    ELSE IF t = 0 \/ k = 0 THEN FALSE
    ELSE Under(d, d.head[t], a, k - 1)

\* The token t is in the subtree of a negation trigger that fired in the
\* walk of the log entry e.
UnderTrigger(d, e, t) ==
    \E i \in DOMAIN e.visits :
        /\ SetsNegates(e.visits[i].branch)
        /\ Under(d, t, e.visits[i].tok, Len(d.orth))

BecameNegated(e, j) ==
    /\ Bangs(e.visits[j].f.op) > 0
    /\ j > 1 => Bangs(e.visits[j - 1].f.op) = 0

OpSetAt(e, j) ==
    /\ HasOp(e.visits[j].f)
    /\ j > 1 => ~HasOp(e.visits[j - 1].f)

NegatedAtTrigger(d, e, j) ==
    /\ Bangs(e.visits[j].f.op) > 0 => e.visits[j].f.not
    /\ BecameNegated(e, j) =>
           e.visits[j].negates /\ UnderTrigger(d, e, e.visits[j].tok)

StaysUnNegated(d, e, j) ==
    (OpSetAt(e, j) /\ ~UnderTrigger(d, e, e.visits[j].tok)) =>
        \A k \in DOMAIN e.visits : k >= j => Bangs(e.visits[k].f.op) = 0

OpNegatedOnlyUnderTrigger ==
    \A c \in Comps : \A k \in DOMAIN run[c].log :
        \A j \in DOMAIN run[c].log[k].visits :
            /\ NegatedAtTrigger(run[c].d, run[c].log[k], j)
            /\ StaysUnNegated(run[c].d, run[c].log[k], j)

\* C19, as the code has it: the first sentence as it stands; and an op that
\* was set un-negated becomes negated later in the walk only at a negation
\* word that fires, at that word itself, whatever token had set the op.
NegatedLaterAtNegationWord(e, j) ==
    (BecameNegated(e, j) /\ j > 1 /\ HasOp(e.visits[j - 1].f)) =>
        e.visits[j].branch = 6

OpNegatedAtTrigger ==
    \A c \in Comps : \A k \in DOMAIN run[c].log :
        \A j \in DOMAIN run[c].log[k].visits :
            /\ NegatedAtTrigger(run[c].d, run[c].log[k], j)
            /\ NegatedLaterAtNegationWord(run[c].log[k], j)

\* An op set by a token outside the subtree of every trigger of its walk
\* was negated at a negation word visited later.
OpNegatedAfterwards ==
    \E k \in DOMAIN run[1].log :
        \E i, j \in DOMAIN run[1].log[k].visits :
            /\ i < j
            /\ OpSetAt(run[1].log[k], i)
            /\ ~UnderTrigger(run[1].d, run[1].log[k],
                             run[1].log[k].visits[i].tok)
            /\ BecameNegated(run[1].log[k], j)
            /\ run[1].log[k].visits[j].branch = 6

(***************************************************************************)
(* C20.  For every token visited in a walk one branch of the chain is      *)
(* applied: a rule fires and the token is appended to the walk's consumed  *)
(* list, or none matches and the token is appended to extra_tokens and is  *)
(* not consumed.  At the end of the walk every visited token is in exactly *)
(* one of the two collections, once, and nothing else was added to them.   *)
(***************************************************************************)
\* The scan is about to walk from its token (line 541).
AboutToWalk(r) ==
    /\ r.pc = "scan"
    /\ r.i <= Len(r.d.orth)
    /\ ~InSeq(r.i, r.already_processed)
    /\ lower_(r.d, r.i) \notin change_modifiers
    /\ orth_(r.d, r.i) \notin DOMAIN FIXED_QUERIES_REVERSED

Occurrences(x, s) == Cardinality({k \in DOMAIN s : s[k] = x})

\* before is the consumed list at the start of the walk w.
ConsumedOrExtra(before, w) ==
    /\ SubSeq(w.ap, 1, Len(before)) = before
    /\ Len(w.ap) + Len(w.f.extra_tokens) = Len(before) + Len(w.visits)
    /\ \A j \in DOMAIN w.visits :
           /\ ~InSeq(w.visits[j].tok, before)
           /\ Occurrences(w.visits[j].tok, w.ap) =
                  IF w.visits[j].branch # 0 THEN 1 ELSE 0
           /\ Occurrences(w.visits[j].tok, w.f.extra_tokens) =
                  IF w.visits[j].branch = 0 THEN 1 ELSE 0

ConsumedXorExtra ==
    \A c \in Comps :
        (/\ AboutToWalk(run[c])
         /\ ~get_filter(run[c].d, run[c].i, run[c].already_processed).raised)
        => ConsumedOrExtra(run[c].already_processed,
               get_filter(run[c].d, run[c].i, run[c].already_processed))

\* The scan, with a token consumed before, is about to start a walk that
\* visits MaxLen - 1 tokens, consumes one and leaves one in extra_tokens.
WalkConsumesAndLeaves ==
    /\ AboutToWalk(run[1])
    /\ Len(run[1].already_processed) = 1
    /\ Len(get_filter(run[1].d, run[1].i,
                      run[1].already_processed).visits) = MaxLen - 1
    /\ Len(get_filter(run[1].d, run[1].i,
                      run[1].already_processed).ap) = 2
    /\ Len(get_filter(run[1].d, run[1].i,
                      run[1].already_processed).f.extra_tokens) = 1

(***************************************************************************)
(* C21.  Within one compilation no token is visited by the Filter          *)
(* Extractor more than once: a token that took part in the walk rooted at  *)
(* one token is not classified again in the walk rooted at a later token.  *)
(***************************************************************************)
VisitedIn(e) == {e.visits[j].tok : j \in DOMAIN e.visits}

NoTokenVisitedTwice ==
    \A c \in Comps : \A j, k \in DOMAIN run[c].log :
        j < k => VisitedIn(run[c].log[j]) \cap VisitedIn(run[c].log[k]) = {}

\* The tokens the iteration of the log entry e added to already_processed,
\* as far as the log tells: the token of a change modifier or a macro, the
\* tokens a rule applied to in a walk that gave a date, the tokens that set
\* name, op and value of an emitted filter, the aggregated status tokens.
CommittedBy(e) ==
    IF e.kind \in {"change", "macro"} THEN {e.tok}
    ELSE IF e.kind = "date"
    THEN {e.visits[j].tok : j \in {i \in DOMAIN e.visits :
                                       e.visits[i].branch # 0}}
    ELSE IF e.kind = "walk"
    THEN (IF Full(e.f) THEN {e.f.name_, e.f.op_, e.f.val_} ELSE {})
         \cup (IF e.agg # <<>> THEN e.f.status_tokens ELSE {})
    ELSE {}

\* C21, as the code has it: a token that an earlier iteration committed to
\* the consumed list is visited by no later walk, and the scan walks from no
\* such token; every other token of an earlier walk may be visited again.
CommittedNotVisitedAgain ==
    \A c \in Comps : \A j, k \in DOMAIN run[c].log :
        j < k =>
            /\ CommittedBy(run[c].log[j]) \cap VisitedIn(run[c].log[k]) = {}
            /\ run[c].log[k].tok \in CommittedBy(run[c].log[j]) =>
                   run[c].log[k].kind = "skip"

\* A complete filter was emitted and its token committed; a later walk
\* visited a token of the earlier walk that was not committed.
VisitedAgainAfterCommit ==
    \E j, k \in DOMAIN run[1].log :
        /\ j < k
        /\ run[1].log[j].filter # <<>>
        /\ CommittedBy(run[1].log[j]) # {}
        /\ run[1].log[k].kind = "walk"
        /\ VisitedIn(run[1].log[j]) \cap VisitedIn(run[1].log[k]) # {}
        /\ \E i \in DOMAIN run[1].log :
               i > j /\ run[1].log[i].kind = "skip"

(***************************************************************************)
(* C22.  One scan iteration changes the committed consumed list only so:   *)
(* the token itself is added when it is a change modifier or a macro; the  *)
(* tokens consumed in the walk and the tokens of the date are added when a *)
(* date boundary is assigned; the tokens that set name, op and value are   *)
(* added when a complete filter is emitted; the status sub-word tokens are *)
(* added when status aggregation matches.  In every other case, a date     *)
(* that resolved without being assigned included, the list is unchanged;   *)
(* it never loses a token.                                                 *)
(***************************************************************************)
\* The tokens parse_date adds for the extra tokens of the walk of e.
DateTokens(d, e) == Range(parse_date(d, e.f.extra_tokens, <<>>).ap)

AddedBy(d, e) ==
    CommittedBy(e) \cup (IF e.kind = "date" THEN DateTokens(d, e) ELSE {})

\* r is a compilation before a step and q the same compilation after it.
CommitStep(r, q) ==
    IF q.pc = "scan" /\ Len(q.log) = Len(r.log) + 1
    THEN /\ SubSeq(q.already_processed, 1, Len(r.already_processed))
                = r.already_processed
         /\ Range(q.already_processed)
                = Range(r.already_processed) \cup AddedBy(q.d, LastEntry(q))
    ELSE q.already_processed = r.already_processed

CommitsOnlyListed ==
    [][\A c \in Comps : CommitStep(run[c], run'[c])]_vars

\* A date was assigned and its token committed; a later walk resolved a
\* date that could not be assigned, and its token is not committed.
ResolvedDateNotCommitted ==
    /\ Done(1)
    /\ \E j, k \in DOMAIN run[1].log :
           /\ j < k
           /\ run[1].log[j].kind = "date"
           /\ j \in Range(run[1].already_processed)
           /\ run[1].log[k].kind = "walk"
           /\ run[1].log[k].f.extra_tokens = <<k>>
           /\ parse_date(run[1].d, <<k>>, <<>>).result # NoTime
           /\ k \notin Range(run[1].already_processed)

(***************************************************************************)
(* One compilation over the words of relative dates: a number, a unit,     *)
(* 'ago', a day, a conjunction and a word that is no date.                 *)
(***************************************************************************)
VocabRelative == {"two", "week", "ago", "yesterday", "foo", "and", "to"}
InitRelative == Start(1..MaxLen, VocabRelative, NoTexts, Users, Nows)
SpecRelative == InitRelative /\ [][Next]_vars

(***************************************************************************)
(* C23.  When the Date Extractor resolves nothing it returns no value and  *)
(* leaves the consumed list it was given as it was; it resolves nothing    *)
(* when the only token is a lone number.  Tokens are added to the list     *)
(* only on a resolution, and they are tokens it was given.                 *)
(***************************************************************************)
\* The tokens parse_date looks at are one number.
LoneNumber(d, tokens) ==
    /\ Len(tokens) = 1
    /\ pos_(d, tokens[1]) \notin {"CONJ", "DET"}
    /\ IsInt(NumberValue(d, tokens[1]))

\* pd is what parse_date returns for the tokens and the list given.
DateFrame(d, tokens, given, pd) ==
    /\ LoneNumber(d, tokens) => pd.result = NoTime
    /\ pd.result = NoTime => pd.ap = given
    /\ pd.result # NoTime =>
           /\ Len(pd.ap) > Len(given)
           /\ SubSeq(pd.ap, 1, Len(given)) = given
           /\ \A k \in (Len(given) + 1)..Len(pd.ap) : InSeq(pd.ap[k], tokens)

WalkDateFrame(d, w) ==
    DateFrame(d, w.f.extra_tokens, w.ap,
              parse_date(d, w.f.extra_tokens, w.ap))

UnresolvedDateLeavesList ==
    \A c \in Comps :
        AboutToWalk(run[c]) =>
            WalkDateFrame(run[c].d, get_filter(run[c].d, run[c].i,
                                               run[c].already_processed))

\* The scan, with a token consumed before, is about to walk from a lone
\* number: the Date Extractor gives no value although the library would.
LoneNumberRefused ==
    /\ AboutToWalk(run[1])
    /\ Len(run[1].already_processed) > 0
    /\ LoneNumber(run[1].d, get_filter(run[1].d, run[1].i,
                      run[1].already_processed).f.extra_tokens)
    /\ DateparserParse(<<NumberValue(run[1].d, run[1].i)>>, run[1].d.now)
           # NoTime
    /\ parse_date(run[1].d, <<run[1].i>>, run[1].already_processed).result
           = NoTime

(***************************************************************************)
(* One compilation over status sub-words, a status, a negation, a date and *)
(* a conjunction.                                                          *)
(***************************************************************************)
VocabAggregation == {"assigned", "bug", "closing", "closed", "not",
                     "yesterday", "and"}
InitAggregation == Start(1..MaxLen, VocabAggregation, NoTexts, Users, Nows)
SpecAggregation == InitAggregation /\ [][Next]_vars

(***************************************************************************)
(* C24.  Status aggregation: for every walk whose filter was not emitted   *)
(* as a status filter, a status clause is emitted exactly when the         *)
(* canonical forms of the status sub-words collected in the walk are the   *)
(* whole sub-word set of one configured status.  The clause is             *)
(* status=!<status> when the filter's negated flag is set and              *)
(* status=<status> otherwise, and the contributing tokens are then in the  *)
(* consumed list.                                                          *)
(***************************************************************************)
CanonicalSubWords(d, e) ==
    {TRANSLATE_STATUS_TOKENS[orth_(d, t)] : t \in e.f.status_tokens}

EmittedAsStatus(e) ==
    e.kind = "walk" /\ Full(e.f) /\ e.f.name = "status"

\* The status aggregation of the walk of the log entry e of the run r.
AggregationOf(r, e) ==
    IF CanonicalSubWords(r.d, e) \in DOMAIN TOKENIZED_STATUSES
    THEN /\ e.agg = << (IF e.f.not THEN <<"status", "=", "!">>
                        ELSE <<"status", "=">>)
                       \o <<TOKENIZED_STATUSES[CanonicalSubWords(r.d, e)]>> >>
         /\ e.f.status_tokens \subseteq Range(r.already_processed)
    ELSE e.agg = <<>>

AggregationInEveryWalk ==
    \A c \in Comps : \A k \in DOMAIN run[c].log :
        (/\ run[c].log[k].kind \in {"walk", "date"}
         /\ ~EmittedAsStatus(run[c].log[k]))
        => AggregationOf(run[c], run[c].log[k])

\* C24, as the code has it: the same for the walks that did not assign a
\* date boundary; a walk that assigned one ends its iteration there and
\* emits no status clause, whatever sub-words it collected.
AggregationAfterFilter ==
    \A c \in Comps : \A k \in DOMAIN run[c].log :
        /\ (run[c].log[k].kind = "walk" /\ ~EmittedAsStatus(run[c].log[k]))
               => AggregationOf(run[c], run[c].log[k])
        /\ (run[c].log[k].kind = "date" \/ EmittedAsStatus(run[c].log[k]))
               => run[c].log[k].agg = <<>>

\* A walk under a negation collected the two sub-words of assigned_bug and
\* emitted status=!assigned_bug; another walk collected one of the two and
\* emitted no status clause.
AggregatedTwoSubWords ==
    \E j, k \in DOMAIN run[1].log :
        /\ run[1].log[j].agg = << <<"status", "=", "!", "assigned_bug">> >>
        /\ Cardinality(run[1].log[j].f.status_tokens) = 2
        /\ run[1].log[k].kind = "walk"
        /\ Cardinality(run[1].log[k].f.status_tokens) = 1
        /\ CanonicalSubWords(run[1].d, run[1].log[k]) \in {{"assigned"}, {"bug"}}
        /\ run[1].log[k].agg = <<>>

(***************************************************************************)
(* C25.  For one root token at most one of four outcomes occurs: a date    *)
(* boundary is assigned, the clauses of a complete filter are emitted, a   *)
(* status-aggregation clause is emitted, an owner clause is emitted.       *)
(***************************************************************************)
Outcomes(e) ==
    (IF e.kind = "date" THEN 1 ELSE 0) + (IF e.filter # <<>> THEN 1 ELSE 0)
        + (IF e.agg # <<>> THEN 1 ELSE 0) + (IF e.owner # <<>> THEN 1 ELSE 0)

OneOutcome ==
    \A c \in Comps : \A k \in DOMAIN run[c].log : Outcomes(run[c].log[k]) <= 1

\* C25, as the code has it: an iteration that assigns a date boundary emits
\* nothing; an owner clause comes with no filter clause and no status
\* clause; filter clauses and a status-aggregation clause come together
\* when the complete filter is not named status and the sub-words of the
\* walk add up to a status.
OutcomesOfIteration(e) ==
    /\ e.kind = "date" => Outcomes(e) = 1
    /\ e.owner # <<>> => Outcomes(e) = 1
    /\ (e.filter # <<>> /\ e.agg # <<>>) => e.f.name # "status"

OutcomesExclusive ==
    \A c \in Comps : \A k \in DOMAIN run[c].log :
        OutcomesOfIteration(run[c].log[k])

\* One iteration emitted type=bug and status=assigned_bug.
FilterAndAggregation ==
    \E k \in DOMAIN run[1].log :
        /\ run[1].log[k].filter = << <<"type", "=", "bug">> >>
        /\ run[1].log[k].agg = << <<"status", "=", "assigned_bug">> >>

(***************************************************************************)
(* C26.  An owner clause is emitted for a root token only when the token   *)
(* is a first-person cue and the same iteration assigned no date boundary, *)
(* emitted no complete filter and matched no status aggregation.  It is    *)
(* owner=!<user> when a negation word is a direct child of the token and   *)
(* owner=<user> otherwise, and there is one owner clause at most for the   *)
(* token.                                                                  *)
(***************************************************************************)
NegationChild(d, tok) ==
    \E j \in Tokens(d) : d.head[j] = tok /\ lower_(d, j) \in negations

OwnerOnlyAlone(d, e) ==
    e.owner # <<>> =>
        /\ lower_(d, e.tok) \in mes
        /\ e.kind = "walk"
        /\ e.filter = <<>>
        /\ e.agg = <<>>
        /\ e.owner = << IF NegationChild(d, e.tok)
                        THEN <<"owner", "=", "!", d.user>>
                        ELSE <<"owner", "=", d.user>> >>

OwnerClauseAlone ==
    \A c \in Comps : \A k \in DOMAIN run[c].log :
        OwnerOnlyAlone(run[c].d, run[c].log[k])

\* 'my' with the child 'not' gave owner=!<user>, the one clause of its
\* iteration, in a compilation that has returned.
NegatedOwnerEmitted ==
    /\ Done(1)
    /\ \E k \in DOMAIN run[1].log :
           /\ lower_(run[1].d, k) = "my"
           /\ NegationChild(run[1].d, k)
           /\ run[1].log[k].owner = << <<"owner", "=", "!", run[1].d.user>> >>
           /\ <<"owner", "=", "!", run[1].d.user>> \in ClauseSet(run[1].result)

(***************************************************************************)
(* C27.  The clauses a macro token appends.  With a negation word among    *)
(* the direct children of the token, the interpolated template is split at *)
(* '&' and every clause is toggled: a clause holding '=!' has each '=!'    *)
(* replaced by '=', any other clause has each '=' replaced by '=!'.        *)
(* Without one the interpolated template is appended whole.                *)
(***************************************************************************)
VocabMacro == {Macro(0), Macro(1), Macro(2), "not", "never", "bug"}
InitMacro == Start(1..MaxLen, VocabMacro, NoTexts, Users, Nows)
SpecMacro == InitMacro /\ [][Next]_vars

TemplateOf(d, tok) ==
    Interpolate(ConfFixedQuery(FIXED_QUERIES_REVERSED[orth_(d, tok)]),
                fixed_interpolation(d.user, d.now))

HasNegatedOp(cl) ==
    \E i \in 1..(Len(cl) - 1) : cl[i] = "=" /\ cl[i + 1] = "!"

Toggled(cl) ==
    IF HasNegatedOp(cl) THEN Replace(cl, <<"=", "!">>, <<"=">>)
    ELSE Replace(cl, <<"=">>, <<"=", "!">>)

\* Every '=' of the clause is plain, or every '=' is followed by one '!'.
UniformOps(cl) ==
    \/ ~HasNegatedOp(cl)
    \/ \A i \in DOMAIN cl :
           cl[i] = "=" =>
               /\ i < Len(cl) /\ cl[i + 1] = "!"
               /\ ~(i + 1 < Len(cl) /\ cl[i + 2] = "!")

MacroClauses(d, e) ==
    IF NegationChild(d, e.tok)
    THEN /\ Len(e.macro) = Len(Split(TemplateOf(d, e.tok), "&"))
         /\ \A k \in DOMAIN e.macro :
                e.macro[k] = Toggled(Split(TemplateOf(d, e.tok), "&")[k])
    ELSE e.macro = <<TemplateOf(d, e.tok)>>

TwiceIsOriginal(d, e) ==
    NegationChild(d, e.tok) =>
        \A k \in DOMAIN e.macro :
            NegateFixed(e.macro[k]) = Split(TemplateOf(d, e.tok), "&")[k]

\* C27 as stated: a macro token appends the toggled clauses under a negation
\* and the unchanged template otherwise, and toggling an appended clause
\* once more gives back the clause of the template, whatever the clause.
MacroNegationInvolution ==
    \A c \in Comps : \A k \in DOMAIN run[c].log :
        run[c].log[k].kind = "macro" =>
            /\ MacroClauses(run[c].d, run[c].log[k])
            /\ TwiceIsOriginal(run[c].d, run[c].log[k])

TwiceIsOriginalWhenUniform(d, e) ==
    NegationChild(d, e.tok) =>
        \A k \in DOMAIN e.macro :
            UniformOps(Split(TemplateOf(d, e.tok), "&")[k]) =>
                NegateFixed(e.macro[k]) = Split(TemplateOf(d, e.tok), "&")[k]

\* C27, as the code has it: a macro token appends the toggled clauses under
\* a negation and the unchanged template otherwise; toggling an appended
\* clause once more gives back the clause of the template when the '=' of
\* that clause are all plain or all followed by one '!'.
MacroNegation ==
    \A c \in Comps : \A k \in DOMAIN run[c].log :
        run[c].log[k].kind = "macro" =>
            /\ MacroClauses(run[c].d, run[c].log[k])
            /\ TwiceIsOriginalWhenUniform(run[c].d, run[c].log[k])

\* The negated macro 'moshpit' appended keywords=!moshpit, status=closed
\* and summary=!~metal.
NegatedMacroToggled ==
    \E k \in DOMAIN run[1].log :
        /\ run[1].log[k].kind = "macro"
        /\ NegationChild(run[1].d, k)
        /\ run[1].log[k].macro =
               << <<"keywords", "=", "!", "moshpit">>,
                  <<"status", "=", "closed">>,
                  <<"summary", "=", "!", "~", "metal">> >>

(***************************************************************************)
(* C28.  Clause order.  The iterations are logged in the order of their    *)
(* tokens; while the loop runs the query is the clauses of the logged      *)
(* iterations in that order (per iteration: macro, filter, aggregation,    *)
(* owner); the returned string is those clauses, then the date-range       *)
(* clause if there is one, then status=!closed if the default applies,     *)
(* joined by '&'.                                                          *)
(***************************************************************************)
TailShape(t) ==
    \/ t = <<>>
    \/ Len(t) = 1 /\ (IsDateRangeClause(t[1]) \/ t[1] = DefaultStatus)
    \/ Len(t) = 2 /\ IsDateRangeClause(t[1]) /\ t[2] = DefaultStatus

TailOf(r) ==
    SubSeq(r.trac_query, Len(ScanClauses(r.log)) + 1, Len(r.trac_query))

InScanOrder(r) ==
    /\ \A k, l \in DOMAIN r.log : k < l => r.log[k].tok < r.log[l].tok
    /\ r.pc = "scan" => r.trac_query = ScanClauses(r.log)
    /\ r.pc = "done" =>
           /\ Len(r.trac_query) >= Len(ScanClauses(r.log))
           /\ r.trac_query = ScanClauses(r.log) \o TailOf(r)
           /\ TailShape(TailOf(r))
           /\ r.result = Join(r.trac_query, "&")

\* C28: the clauses of the scanned tokens in scan order, then the date-range
\* clause, then the default clause.
ClauseOrder == \A c \in Comps : InScanOrder(run[c])

\* A returned query of a macro clause, a later filter clause, the date
\* range and the default clause.
FourKindsInOrder ==
    /\ Done(1)
    /\ Len(TailOf(run[1])) = 2
    /\ \E k, l \in DOMAIN run[1].log :
           /\ k < l
           /\ run[1].log[k].macro # <<>>
           /\ run[1].log[l].filter # <<>>

(***************************************************************************)
(* C29.  The pseudo-names 'on', 'from' and 'to' are set only in the call   *)
(* of get_filter on the root of a walk (level 0), and no clause of the     *)
(* query has one of them as its field.                                     *)
(***************************************************************************)
VocabPseudo == {"to", "on", "since", "is", "foo", "yesterday", "bug"}
InitPseudo == Start(1..MaxLen, VocabPseudo, NoTexts, Users, Nows)
SpecPseudo == InitPseudo /\ [][Next]_vars

PseudoNames == {"on", "from", "to"}

PseudoNameAtRootOnly(e) ==
    \A v \in DOMAIN e.visits :
        e.visits[v].branch \in {19, 20, 21} => e.visits[v].level = 0

NoPseudoField(r) ==
    \A k \in DOMAIN r.trac_query : r.trac_query[k][1] \notin PseudoNames

\* C29: 'on', 'from' and 'to' are set as a name at level 0 only, and no
\* clause of the query has one of them as its field.
PseudoNamesStayInside ==
    \A c \in Comps :
        /\ \A k \in DOMAIN run[c].log : PseudoNameAtRootOnly(run[c].log[k])
        /\ NoPseudoField(run[c])

\* The pseudo-names are set at level 0 only (the first half of C29).
PseudoNamesAtRootOnly ==
    \A c \in Comps :
        \A k \in DOMAIN run[c].log : PseudoNameAtRootOnly(run[c].log[k])

\* A walk from a root 'to' was emitted as a clause of the field 'to'.
PseudoFieldEmitted ==
    \E k \in DOMAIN run[1].log :
        /\ run[1].log[k].f.name = "to"
        /\ run[1].log[k].filter # <<>>
        /\ run[1].log[k].filter[1][1] = "to"

(***************************************************************************)
(* The extraction of quoted literals (natural.py, lines 444-458).  The     *)
(* query is a sequence of characters; a placeholder put into it is one     *)
(* element, for it holds no quote and no white space.                      *)
(***************************************************************************)
MaxQuery == 6
Quotes == {"'", "\""}
Whitespace == {" ", "\n"}
Chars == Quotes \cup Whitespace \cup {"a"}

\* match_re tried at position i: the position of the closing quote, 0 when
\* there is no match.  The quote stands at the start of the string or after
\* white space; '.*?' runs to the next quote of the same kind and crosses
\* no line break.
MatchEnd(q, i) ==
    IF /\ q[i] \in Quotes
       /\ (i = 1 \/ q[i - 1] \in Whitespace)
       /\ \E j \in (i + 1)..Len(q) :
              /\ q[j] = q[i]
              /\ \A k \in (i + 1)..(j - 1) : q[k] # q[i] /\ q[k] # "\n"
    THEN CHOOSE j \in (i + 1)..Len(q) :
             q[j] = q[i] /\ \A k \in (i + 1)..(j - 1) : q[k] # q[i]
    ELSE 0

\* match_re.search(query): the leftmost position with a match, 0 for None.
SearchStart(q) ==
    IF \E i \in DOMAIN q : MatchEnd(q, i) # 0
    THEN CHOOSE i \in DOMAIN q :
             /\ MatchEnd(q, i) # 0
             /\ \A h \in 1..(i - 1) : MatchEnd(q, h) = 0
    ELSE 0

\* text.strip('"\''): the quotes of both kinds are taken off both ends.
RECURSIVE Strip(_)
Strip(s) ==
    IF s = <<>> THEN s
    ELSE IF Head(s) \in Quotes THEN Strip(Tail(s))
    ELSE IF s[Len(s)] \in Quotes THEN Strip(SubSeq(s, 1, Len(s) - 1))
    ELSE s

\* The locals of the loop; found lists the literals in the order of their
\* extraction.
NewExtraction(query) ==
    [query |-> query, texts |-> <<>>, inc |-> 0, pc |-> "extract",
     found |-> <<>>]

\* One iteration as it would be with a counter that stands still.
ExtractOneSamePlaceholder(r) ==
    [r EXCEPT
       !.texts = (Literal(r.inc) :>
                    Strip(SubSeq(r.query, SearchStart(r.query),
                                 MatchEnd(r.query, SearchStart(r.query)))))
                 @@ @,
       !.query = SubSeq(@, 1, SearchStart(r.query) - 1)
                 \o <<Literal(r.inc)>>
                 \o SubSeq(@, MatchEnd(r.query, SearchStart(r.query)) + 1,
                           Len(@)),
       !.found = Append(@, Strip(SubSeq(r.query, SearchStart(r.query),
                                 MatchEnd(r.query, SearchStart(r.query)))))]

\* Lines 450-457: one iteration that found a match.
ExtractOne(r) ==
    [r EXCEPT
       !.texts = (Literal(r.inc) :>
                    Strip(SubSeq(r.query, SearchStart(r.query),
                                 MatchEnd(r.query, SearchStart(r.query)))))
                 @@ @,
       !.query = SubSeq(@, 1, SearchStart(r.query) - 1)
                 \o <<Literal(r.inc)>>
                 \o SubSeq(@, MatchEnd(r.query, SearchStart(r.query)) + 1,
                           Len(@)),
       !.inc = @ + 1,
       !.found = Append(@, Strip(SubSeq(r.query, SearchStart(r.query),
                                 MatchEnd(r.query, SearchStart(r.query)))))]

Extract ==
    /\ run[1].pc = "extract"
    /\ SearchStart(run[1].query) # 0
    /\ run' = [run EXCEPT ![1] = ExtractOne(run[1])]

\* Lines 452-455: search returns None and the loop is left.
ExtractBreak ==
    /\ run[1].pc = "extract"
    /\ SearchStart(run[1].query) = 0
    /\ run' = [run EXCEPT ![1].pc = "extracted"]

NextLiteral == Extract \/ ExtractBreak

InitLiteral ==
    \E len \in 0..MaxQuery : \E q \in [1..len -> Chars] :
        run = (1 :> NewExtraction(q)) @@ (2 :> OffRun)

SpecLiteral == InitLiteral /\ [][NextLiteral]_vars

(***************************************************************************)
(* C30.  The extraction loop ends for every input; when it has ended no    *)
(* part of the text matches the quoted pattern; the k-th literal is kept   *)
(* under the placeholder of k, and the placeholders are as many as the     *)
(* literals.                                                               *)
(***************************************************************************)
QuoteCount(q) == Cardinality({i \in DOMAIN q : q[i] \in Quotes})

\* The iterations the loop has left at most, the leaving one included.
IterationsLeft(r) == IF r.pc = "extract" THEN QuoteCount(r.query) + 1 ELSE 0

\* The parts of q that match the quoted pattern.
QuotedParts(q) ==
    {p \in (DOMAIN q) \X (DOMAIN q) :
        /\ p[1] < p[2]
        /\ p[1] = 1 \/ q[p[1] - 1] \in Whitespace
        /\ q[p[1]] \in Quotes
        /\ q[p[2]] = q[p[1]]
        /\ \A k \in (p[1] + 1)..(p[2] - 1) : q[k] # "\n"}

OwnPlaceholders(r) ==
    /\ Len(r.found) = r.inc
    /\ DOMAIN r.texts = {Literal(k) : k \in 0..(r.inc - 1)}
    /\ Cardinality(DOMAIN r.texts) = Len(r.found)
    /\ \A k \in DOMAIN r.found : r.texts[Literal(k - 1)] = r.found[k]

\* C30: every iteration brings the loop nearer to its end, the loop is left
\* with no quoted part in the text, and every literal found is kept under a
\* placeholder of its own.
ExtractionTerminates ==
    /\ [][IterationsLeft(run'[1]) < IterationsLeft(run[1])]_vars
    /\ [](run[1].pc = "extracted" => QuotedParts(run[1].query) = {})
    /\ [](OwnPlaceholders(run[1]))

\* The loop was left after two literals, 'a' and an empty one.
TwoLiteralsExtracted ==
    /\ run[1].pc = "extracted"
    /\ run[1].inc = 2
    /\ run[1].found = << <<"a">>, <<>> >>
    /\ run[1].texts[Literal(0)] = <<"a">>
    /\ run[1].texts[Literal(1)] = <<>>

====
